---- MODULE Spec2Model ----
(***************************************************************************)
(* Model of the audio chat client of src/mainaudio.go (lines 1-989): the   *)
(* receiver task, the audio-assembler task, the initiating task (Start),   *)
(* the interrupt handler, and the one-shot shutdown with its goroutine.    *)
(* A second specification, SendSpec, models sendAudioMessage's chunk loop. *)
(* Further specifications follow one part of the code each: InputSpec the  *)
(* input loop, WavSpec the WAV header, DispatchSpec the frames as text,    *)
(* ReadSpec the read errors, RetrySpec sendWithRetry of src/maingo.go,     *)
(* TranscriptSpec the response.done case, WriterSpec the writers of the    *)
(* connection, MutexSpec the mutex of the audio map, FragmentSpec the      *)
(* fragments on their way to the buffers, KeySpec the stream keys and      *)
(* PathSpec the output paths.                                              *)
(***************************************************************************)
EXTENDS Integers, Sequences, FiniteSets, TLC

\* ------------------------------------------------------------------ bounds
\* Frames the network delivers to the receiver in one run.
MaxFrames == 3
\* Capacity of AudioChannel in the model (the program uses 100, mainaudio.go:903).
AudioChannelCap == 1
\* The value up to which the model follows the error counter.
MaxErrors == 1

\* ------------------------------------------------------------- identifiers
\* (responseID, itemID) pairs the server issues in the model.
StreamKeys == {<<"r1", "i1">>, <<"r2", "i2">>}

\* fmt.Sprintf("%s_%s", responseID, itemID)
audioKey(r, i) == r \o "_" \o i

AudioKeys == {audioKey(sk[1], sk[2]) : sk \in StreamKeys}

Callers == {"main", "sig", "rcv"}
Closeables == {"Done", "Conn", "Logger", "MessageChannel", "DisplayChannel", "AudioChannel"}

NoChunk == [rid |-> "", iid |-> "", data |-> <<>>]
NoMsg == [type |-> "none", rid |-> "", iid |-> "", data |-> <<>>]
NoDone == [state |-> "none", key |-> "", expected |-> <<>>, actual |-> <<>>,
           err |-> FALSE, fresh |-> FALSE]

VARIABLES
    pc,            \* position of each task: main (Start), sig (interrupt handler), rcv, asm,
                   \* ka (keepAliveRoutine)
    goIdx,         \* position of shutdown's goroutine in ShutdownSeq (0: not spawned)
    once,          \* c.ShutdownOnce: "idle", "running", "done"
    closeCount,    \* how many times Done, Conn, Logger and the channels were closed
    complete,      \* shutdown's local channel `complete` is closed
    sdResult,      \* which branch shutdown's select took: "none", "completed", "timeout"
    wg,            \* c.WG counter
    AudioChannel,  \* queued chunks
    AudioBuffer,   \* map audioKey -> accumulated bytes
    audioFiles,    \* receiveRoutine's map audioKey -> remembered path (named by the done frame's number)
    rcvMsg,        \* the frame the receiver is handling
    rcvData,       \* saveAudioOnly's local audioData
    asmChunk,      \* the chunk audioProcessingRoutine took from the queue
    saved,         \* audio persisted so far: sequence of [key, data]
    netSent,       \* frames delivered so far
    panicked,      \* the process died of a runtime panic
    \* history (not program state)
    recvd,         \* per key: payloads of the delta frames received since the key's last done frame
    appendedSince, \* per key: a fragment was appended since the key's last successful drain
    lastDone,      \* the last response.audio.done frame and the outcome of its drain
    goLog,         \* the steps shutdown's goroutine has performed, in order
    netLog,        \* what the frames the receiver has dispatched were meant to be, in order
    \* sendAudioMessage (SendSpec)
    sPc, sRaw, sChunk, sOff, sEvents, sErr,
    sHeader,       \* the first bytes of the file given to sendAudioMessage
    sSize,         \* fileInfo.Size() of that file
    sRet,          \* the error the call returned: <<>> (nil) or <<wrapping text, cause>>
    \* history of sendAudioMessage
    sWrites,       \* every call of c.Conn.WriteJSON of this send so far: [event, ok]
    sDone,         \* how the calls of sendAudioMessage that Start has made ended, in order:
                   \* "" for nil, else the outermost text of the error
    \* saveAudioOnly's encoder (WavSpec)
    pcmLen,        \* len(audioData) of the audio being persisted
    \* the receiver's read errors and the transcripts
    Errors,        \* c.Metrics.Errors, followed up to MaxErrors
    rcvErr,        \* the error of receiveRoutine's latest ReadMessage ("" for nil)
    transcripts,   \* the calls of os.WriteFile saveTranscript has made: [path, key, text, ok]
    \* sendWithRetry of the text client (RetrySpec)
    rPc,           \* position in sendWithRetry: "idle", "attempt", "returned"
    rI,            \* the loop variable i
    lastErr,       \* lastErr: "" for nil, else the error of the latest failed write
    rRet,          \* the returned error: <<>> (nil) or <<text, cause>>
    messagesSent,  \* c.metrics.messagesSent
    errors,        \* c.metrics.errors
    \* history of sendWithRetry
    rLog,          \* the outcomes of this call's writes, in order: "" for nil, else the error
    rAt,           \* the counters when the call began: [sent, errors]
    \* the writers of the connection (WriterSpec)
    client,        \* which program runs: "audio" (mainaudio.go) or "text" (maingo.go)
    wPc,           \* where each task is
    wStep,         \* Start's position in its steps
    wI,            \* per task: sendWithRetry's i
    wLeft,         \* per task: events of the current message still to write
    wQueue,        \* texts in the text client's messageChannel
    wLines,        \* lines the user has entered
    writers,       \* the tasks inside c.Conn.WriteJSON
    wDone,         \* shutdown has closed Done and the connection
    \* the mutex of the audio map (MutexSpec)
    AudioMutex,    \* c.AudioMutex: "unlocked" or the task that holds it
    inMap,         \* the tasks inside an access to c.AudioBuffer
    mPc,           \* per task: its step in handleAudioChunk or saveAudioOnly, 0 outside
    mKey,          \* per task: the audioKey of its call
    mFound,        \* per task: what its lookup found
    mOps,          \* calls made so far
    AudioChunks,   \* c.Metrics.AudioChunks
    \* history of the fragments (FragmentSpec)
    decoded,       \* the fragments handleAudioResponse has decoded, in order: [key, data]
    appended,      \* the fragments handleAudioChunk has appended, in order: [key, data]
    \* stream keys as ID strings (KeySpec)
    kOps,          \* calls of handleAudioChunk and saveAudioOnly so far
    kDrains,       \* what the drains took out, in order: [stream, data]
    \* the output paths of response.audio.done (PathSpec)
    now,           \* time.Now(), in ticks of 1/TicksPerSecond second
    wavs,          \* the WAV files on disk: path -> [key, data] of the latest write
    pOps           \* fragments and done events handled so far

clientVars == <<pc, goIdx, once, closeCount, complete, sdResult, wg, AudioChannel, AudioBuffer,
                audioFiles, rcvMsg, rcvData, asmChunk, saved, netSent, panicked,
                recvd, appendedSince, lastDone, goLog, netLog, Errors, rcvErr, transcripts>>
sendVars == <<sPc, sRaw, sChunk, sOff, sEvents, sErr, sHeader, sSize, sRet, sWrites, sDone, pcmLen>>
retryVars == <<rPc, rI, lastErr, rRet, messagesSent, errors, rLog, rAt>>
writerVars == <<client, wPc, wStep, wI, wLeft, wQueue, wLines, writers, wDone>>
\* The variables of the specifications that follow one matter each.
mutexVars == <<AudioMutex, inMap, mPc, mKey, mFound, mOps, AudioChunks>>
fragmentVars == <<decoded, appended>>
keyVars == <<kOps, kDrains>>
pathVars == <<now, wavs, pOps>>
laterVars == <<writerVars, mutexVars, fragmentVars, keyVars, pathVars>>
\* Everything outside the audio client's tasks and sendAudioMessage.
otherVars == <<retryVars, laterVars>>
nonWriterVars == <<clientVars, sendVars, retryVars, mutexVars, fragmentVars, keyVars,
                   pathVars>>
\* What handleAudioChunk and saveAudioOnly leave alone.
mutexRest == <<pc, goIdx, once, closeCount, complete, sdResult, wg, AudioChannel,
               audioFiles, rcvMsg, rcvData, asmChunk, saved, netSent, panicked,
               recvd, appendedSince, lastDone, goLog, netLog, Errors, rcvErr, transcripts,
               sendVars, retryVars, writerVars, fragmentVars, keyVars, pathVars>>
vars == <<clientVars, sendVars, otherVars>>
readVars == <<Errors, rcvErr>>
\* What the tasks of the audio client leave alone unless they say otherwise.
restVars == <<readVars, transcripts, otherVars>>

\* ----------------------------------------------------------------- helpers
IsClosed(x) == closeCount[x] > 0
DoneClosed == IsClosed("Done")
Close(x) == closeCount' = [closeCount EXCEPT ![x] = @ + 1]

\* The process is running: main has not returned and nothing panicked.
Alive == pc["main"] # "exited" /\ ~panicked

Goto(p, l) == pc' = [pc EXCEPT ![p] = l]

MapDelete(m, k) == [x \in DOMAIN m \ {k} |-> m[x]]
MapPut(m, k, v) == [x \in DOMAIN m \cup {k} |-> IF x = k THEN v ELSE m[x]]

\* ------------------------------------------------------------------- Init
\* The state NewChatClient leaves (mainaudio.go:881-924): the assembler task is
\* running and counted in WG; Start has not been called yet.
ClientInit ==
    /\ pc = [main |-> "start", sig |-> "wait", rcv |-> "unborn", asm |-> "select",
            ka |-> "unborn"]
    /\ goIdx = 0
    /\ once = "idle"
    /\ closeCount = [x \in Closeables |-> 0]
    /\ complete = FALSE
    /\ sdResult = "none"
    /\ wg = 1
    /\ AudioChannel = <<>>
    /\ AudioBuffer = <<>>
    /\ audioFiles = <<>>
    /\ rcvMsg = NoMsg
    /\ rcvData = <<>>
    /\ asmChunk = NoChunk
    /\ saved = <<>>
    /\ netSent = 0
    /\ panicked = FALSE
    /\ recvd = [k \in AudioKeys |-> <<>>]
    /\ appendedSince = [k \in AudioKeys |-> FALSE]
    /\ lastDone = NoDone
    /\ goLog = <<>>
    /\ netLog = <<>>
    /\ Errors = 0
    /\ rcvErr = ""
    /\ transcripts = <<>>

SendIdle ==
    /\ sPc = "idle" /\ sRaw = <<>> /\ sChunk = 1 /\ sOff = 0 /\ sEvents = <<>> /\ sErr = FALSE
    /\ sHeader = <<>> /\ sSize = <<0, 0, 0>> /\ sRet = <<>> /\ sWrites = <<>> /\ pcmLen = <<0, 0, 0>>
    /\ sDone = <<>>

\* No call of sendWithRetry has been made.
RetryIdle ==
    /\ rPc = "idle" /\ rI = 0 /\ lastErr = "" /\ rRet = <<>>
    /\ messagesSent = 0 /\ errors = 0
    /\ rLog = <<>> /\ rAt = [sent |-> 0, errors |-> 0]

\* The tasks of the two clients that touch the connection.
WTasks == {"start", "input", "send", "receive", "assembler"}

\* Outside the specification of the writers no client of it runs.
WriterIdle ==
    /\ client = "audio"
    /\ wPc = [t \in WTasks |-> "unborn"]
    /\ wStep = 1
    /\ wI = [t \in WTasks |-> 0]
    /\ wLeft = [t \in WTasks |-> 0]
    /\ wQueue = 0
    /\ wLines = 0
    /\ writers = {}
    /\ wDone = FALSE

\* No call of handleAudioChunk or saveAudioOnly has been made.
MutexIdle ==
    /\ AudioMutex = "unlocked" /\ inMap = {}
    /\ mPc = [t \in {"asm", "rcv"} |-> 0]
    /\ mKey = [t \in {"asm", "rcv"} |-> ""]
    /\ mFound = [t \in {"asm", "rcv"} |-> "unknown"]
    /\ mOps = 0 /\ AudioChunks = 0

\* No fragment has been decoded.
FragmentIdle == decoded = <<>> /\ appended = <<>>

KeyIdle == kOps = 0 /\ kDrains = <<>>

\* No response.audio.done has allocated a path; the clock is at its start.
PathIdle == now = 0 /\ wavs = <<>> /\ pOps = 0

\* No specification of a single matter has begun.
LaterIdle == WriterIdle /\ MutexIdle /\ FragmentIdle /\ KeyIdle /\ PathIdle

Init == ClientInit /\ SendIdle /\ RetryIdle /\ LaterIdle

\* ------------------------------------------------- the initiating task (Start)
shutdownVars == <<goIdx, once, closeCount, complete, sdResult, goLog>>
audioVars == <<AudioChannel, AudioBuffer, audioFiles, rcvMsg, rcvData, asmChunk, saved>>
histVars == <<recvd, appendedSince, lastDone, netLog>>

\* Start: c.Conn.WriteJSON(sessionUpdate); an error returns through the deferred shutdown.
StartWriteSession ==
    /\ Alive /\ pc["main"] = "start"
    /\ \E ok \in BOOLEAN :
          /\ ok => ~IsClosed("Conn")
          /\ Goto("main", IF ok THEN "start_add" ELSE "sd_call")
    /\ UNCHANGED <<shutdownVars, audioVars, histVars, wg, netSent, panicked, sendVars>>
    /\ UNCHANGED restVars

\* Start: c.WG.Add(1); go c.receiveRoutine()
StartSpawnReceiver ==
    /\ Alive /\ pc["main"] = "start_add"
    /\ wg' = wg + 1
    /\ pc' = [pc EXCEPT !["main"] = "input", !["rcv"] = "select"]
    /\ UNCHANGED <<shutdownVars, audioVars, histVars, netSent, panicked, sendVars>>
    /\ UNCHANGED restVars

\* Start's input loop: ".quit", ".exit" or a read error on standard input breaks
\* the loop; Start returns through the deferred shutdown. (Any other line is
\* parsed and sent, errors are logged, and the loop reads again.)
UserQuit ==
    /\ Alive /\ pc["main"] = "input"
    /\ Goto("main", "sd_call")
    /\ UNCHANGED <<shutdownVars, audioVars, histVars, wg, netSent, panicked, sendVars>>
    /\ UNCHANGED restVars

\* main's signal goroutine: <-sigChan; client.shutdown()
Interrupt ==
    /\ Alive /\ pc["sig"] = "wait"
    /\ Goto("sig", "sd_call")
    /\ UNCHANGED <<shutdownVars, audioVars, histVars, wg, netSent, panicked, sendVars>>
    /\ UNCHANGED restVars

\* ---------------------------------------------------------------- shutdown
\* What a caller does when shutdown returns: Start returns and main ends the
\* process; the signal goroutine ends; receiveRoutine returns (deferred WG.Done).
Returned(p) ==
    /\ pc' = [pc EXCEPT ![p] = IF p = "main" THEN "exited" ELSE "done"]
    /\ wg' = IF p = "rcv" THEN wg - 1 ELSE wg

\* Mutant of OnceAdmits: a flag that is only checked against a running call.
OnceAdmitsAgain == once # "running"

\* ShutdownOnce.Do admits the caller whose call finds the Once unused.
OnceAdmits == once = "idle"

\* shutdown, first caller: close(c.Done), arm the timeout, spawn the goroutine,
\* then wait in the select.
ShutdownEnter(p) ==
    /\ Alive /\ pc[p] = "sd_call"
    /\ OnceAdmits
    /\ once' = "running"
    /\ Close("Done")
    /\ goIdx' = 1
    /\ Goto(p, "sd_select")
    /\ UNCHANGED <<complete, sdResult, goLog, audioVars, histVars, wg, netSent, panicked, sendVars>>
    /\ UNCHANGED restVars

\* Mutant of SelectBranches: the select waits for `complete` alone.
SelectBranchesNoTimeout == IF complete THEN {"completed"} ELSE {}

\* The branches of shutdown's select that are ready.
SelectBranches == {"timeout"} \cup (IF complete THEN {"completed"} ELSE {})

\* shutdown, first caller: the select returns on `complete` or on the timeout.
ShutdownSelect(p) ==
    /\ Alive /\ pc[p] = "sd_select"
    /\ \E b \in SelectBranches : sdResult' = b
    /\ once' = "done"
    /\ Returned(p)
    /\ UNCHANGED <<goIdx, closeCount, complete, goLog, audioVars, histVars, netSent, panicked, sendVars>>
    /\ UNCHANGED restVars

\* shutdown, later caller: Once.Do returns without running the function, after
\* the first call has returned.
ShutdownSkip(p) ==
    /\ Alive /\ pc[p] = "sd_call"
    /\ once = "done"
    /\ Returned(p)
    /\ UNCHANGED <<shutdownVars, audioVars, histVars, netSent, panicked, sendVars>>
    /\ UNCHANGED restVars

\* Mutant of ShutdownSeq: the channels are closed before the wait.
ShutdownSeqChannelsFirst ==
    <<"close_frame", "close_conn", "close_logger", "close_MessageChannel",
      "close_DisplayChannel", "close_AudioChannel", "wait", "close_complete">>

\* Mutant of ShutdownSeq: the goroutine does not wait for the tracked
\* goroutines before it closes the channels.
ShutdownSeqNoWait ==
    <<"close_frame", "close_conn", "close_logger", "close_MessageChannel",
      "close_DisplayChannel", "close_AudioChannel", "close_complete">>

\* The statements of shutdown's goroutine, in program order.
ShutdownSeq == <<"close_frame", "close_conn", "close_logger", "wait",
                 "close_MessageChannel", "close_DisplayChannel", "close_AudioChannel",
                 "close_complete">>

GoAt(step) ==
    /\ Alive
    /\ goIdx \in 1..Len(ShutdownSeq)
    /\ ShutdownSeq[goIdx] = step
    /\ goIdx' = goIdx + 1
    /\ goLog' = Append(goLog, step)

\* c.Conn.WriteControl(CloseMessage, ...): best effort, result ignored.
GoCloseFrame ==
    /\ GoAt("close_frame")
    /\ UNCHANGED <<pc, once, closeCount, complete, sdResult, audioVars, histVars, wg, netSent, panicked, sendVars>>
    /\ UNCHANGED restVars

\* c.Conn.Close()
GoCloseConn ==
    /\ GoAt("close_conn")
    /\ Close("Conn")
    /\ UNCHANGED <<pc, once, complete, sdResult, audioVars, histVars, wg, netSent, panicked, sendVars>>
    /\ UNCHANGED restVars

\* c.Logger.Close()
GoCloseLogger ==
    /\ GoAt("close_logger")
    /\ Close("Logger")
    /\ UNCHANGED <<pc, once, complete, sdResult, audioVars, histVars, wg, netSent, panicked, sendVars>>
    /\ UNCHANGED restVars

\* c.WG.Wait()
GoWait ==
    /\ GoAt("wait")
    /\ wg = 0
    /\ UNCHANGED <<pc, once, closeCount, complete, sdResult, audioVars, histVars, wg, netSent, panicked, sendVars>>
    /\ UNCHANGED restVars

\* close(c.MessageChannel); close(c.DisplayChannel); close(c.AudioChannel)
GoCloseChannel(ch) ==
    /\ GoAt("close_" \o ch)
    /\ Close(ch)
    /\ UNCHANGED <<pc, once, complete, sdResult, audioVars, histVars, wg, netSent, panicked, sendVars>>
    /\ UNCHANGED restVars

\* close(complete)
GoComplete ==
    /\ GoAt("close_complete")
    /\ complete' = TRUE
    /\ UNCHANGED <<pc, once, closeCount, sdResult, audioVars, histVars, wg, netSent, panicked, sendVars>>
    /\ UNCHANGED restVars


\* ------------------------------------------------------------ receiveRoutine
rcvRest == <<shutdownVars, netSent, panicked, sendVars>>

\* receiveRoutine's select: return when Done is closed, else (default) go and read.
RcvSelect ==
    /\ Alive /\ pc["rcv"] = "select"
    /\ IF DoneClosed
         THEN Returned("rcv")
         ELSE Goto("rcv", "read") /\ wg' = wg
    /\ rcvErr' = ""
    /\ UNCHANGED <<audioVars, histVars, rcvRest>>
    /\ UNCHANGED <<Errors, transcripts, otherVars>>

\* The errors ReadMessage can return on an open connection.
ReadErrors == {"timeout", "normal_close", "unexpected_close", "other_error"}

\* Mutant of AfterReadError: every close error is taken for unexpected.
AfterReadErrorCloseIsFatal(e) ==
    CASE e \in {"normal_close", "unexpected_close"} -> "sd_call"
      [] OTHER -> "select"

\* Where receiveRoutine goes on a read error: a clean close returns, a timeout
\* re-issues the read, an unexpected close error calls shutdown, any other
\* error is logged and the loop continues.
AfterReadError(e) ==
    CASE e = "normal_close" -> "done"
      [] e = "timeout" -> "select"
      [] e = "unexpected_close" -> "sd_call"
      [] OTHER -> "select"

\* ReadMessage fails on the open connection.
RcvReadError ==
    /\ Alive /\ pc["rcv"] = "read" /\ ~IsClosed("Conn")
    /\ \E e \in ReadErrors :
          /\ Goto("rcv", AfterReadError(e))
          /\ wg' = IF AfterReadError(e) = "done" THEN wg - 1 ELSE wg
    /\ UNCHANGED <<audioVars, histVars, rcvRest>>
    /\ UNCHANGED restVars

\* ReadMessage on the connection shutdown has closed: an error that is neither a
\* timeout nor a close error ("use of closed network connection").
RcvReadClosed ==
    /\ Alive /\ pc["rcv"] = "read" /\ IsClosed("Conn")
    /\ Goto("rcv", AfterReadError("other_error"))
    /\ UNCHANGED <<audioVars, histVars, wg, rcvRest>>
    /\ UNCHANGED restVars

\* A byte of audio, tagged with the frame that carried it: the stream key of the
\* frame and the frame's number in arrival order.
Byte(r, i, n) == [src |-> <<r, i>>, n |-> n]

\* The payloads frame number n of stream (r, i) can carry.
Payloads(r, i, n) == {<<Byte(r, i, n)>>}

\* A response.audio.delta frame is read and decoded (handleAudioResponse up to the select).
RcvReadDelta ==
    /\ Alive /\ pc["rcv"] = "read" /\ ~IsClosed("Conn")
    /\ netSent < MaxFrames
    /\ \E sk \in StreamKeys : \E data \in Payloads(sk[1], sk[2], netSent + 1) :
          /\ rcvMsg' = [type |-> "response.audio.delta", rid |-> sk[1], iid |-> sk[2],
                        data |-> data]
          /\ recvd' = [recvd EXCEPT ![audioKey(sk[1], sk[2])] = @ \o data]
    /\ netSent' = netSent + 1
    /\ Goto("rcv", "handoff")
    /\ UNCHANGED <<AudioChannel, AudioBuffer, audioFiles, rcvData, asmChunk, saved,
                   appendedSince, lastDone, shutdownVars, wg, panicked, sendVars>>
    /\ UNCHANGED netLog
    /\ UNCHANGED restVars

\* handleAudioResponse's select, first case: c.AudioChannel <- chunk.
\* A send on a closed channel panics.
RcvHandoffSend ==
    /\ Alive /\ pc["rcv"] = "handoff"
    /\ IF IsClosed("AudioChannel")
         THEN panicked' = TRUE /\ UNCHANGED <<AudioChannel, pc, rcvMsg>>
         ELSE /\ Len(AudioChannel) < AudioChannelCap
              /\ AudioChannel' = Append(AudioChannel,
                                   [rid |-> rcvMsg.rid, iid |-> rcvMsg.iid, data |-> rcvMsg.data])
              /\ rcvMsg' = NoMsg
              /\ Goto("rcv", "select")
              /\ UNCHANGED panicked
    /\ UNCHANGED <<AudioBuffer, audioFiles, rcvData, asmChunk, saved, histVars, shutdownVars,
                   wg, netSent, sendVars>>
    /\ UNCHANGED restVars

\* Mutant of HandoffAbortReady: the send does not race the Done signal.
HandoffAbortNever == FALSE

\* handleAudioResponse's select, second case is ready: <-c.Done.
HandoffAbortReady == DoneClosed

\* handleAudioResponse's select, second case: <-c.Done; the chunk is dropped.
RcvHandoffAbort ==
    /\ Alive /\ pc["rcv"] = "handoff"
    /\ HandoffAbortReady
    /\ rcvMsg' = NoMsg
    /\ Goto("rcv", "select")
    /\ UNCHANGED <<AudioChannel, AudioBuffer, audioFiles, rcvData, asmChunk, saved, histVars,
                   wg, rcvRest>>
    /\ UNCHANGED restVars

\* A response.audio.done frame is read and decoded.
RcvReadDone ==
    /\ Alive /\ pc["rcv"] = "read" /\ ~IsClosed("Conn")
    /\ netSent < MaxFrames
    /\ \E sk \in StreamKeys :
          /\ rcvMsg' = [type |-> "response.audio.done", rid |-> sk[1], iid |-> sk[2],
                        data |-> <<>>]
          /\ lastDone' = [state |-> "pending", key |-> audioKey(sk[1], sk[2]),
                          expected |-> recvd[audioKey(sk[1], sk[2])], actual |-> <<>>,
                          err |-> FALSE, fresh |-> FALSE]
          /\ recvd' = [recvd EXCEPT ![audioKey(sk[1], sk[2])] = <<>>]
    /\ netSent' = netSent + 1
    /\ Goto("rcv", "save_lookup")
    /\ UNCHANGED <<AudioChannel, AudioBuffer, audioFiles, rcvData, asmChunk, saved,
                   appendedSince, shutdownVars, wg, panicked, sendVars>>
    /\ UNCHANGED netLog
    /\ UNCHANGED restVars

\* A frame of any other type is read: logged and otherwise ignored.
RcvReadOther ==
    /\ Alive /\ pc["rcv"] = "read" /\ ~IsClosed("Conn")
    /\ netSent < MaxFrames
    /\ netSent' = netSent + 1
    /\ Goto("rcv", "select")
    /\ UNCHANGED <<audioVars, recvd, appendedSince, lastDone, shutdownVars, wg,
                   panicked, sendVars>>
    /\ UNCHANGED netLog
    /\ UNCHANGED restVars

\* The end of the response.audio.done case: the error (if any) is logged, the path
\* is remembered for the key whatever saveAudioOnly returned, and the loop goes on.
DoneCaseEnds(key, err, actual, fresh) ==
    /\ audioFiles' = MapPut(audioFiles, key, netSent)
    /\ lastDone' = [lastDone EXCEPT !.state = "finished", !.err = err, !.actual = actual,
                                    !.fresh = fresh]
    /\ rcvMsg' = NoMsg
    /\ rcvData' = <<>>
    /\ Goto("rcv", "select")

\* saveAudioOnly, first locked region: look the key up; absent or nil is an
\* error; otherwise take the slice and, after unlocking, reject an empty one.
SaveLookupFails(buf, key) == key \notin DOMAIN buf \/ buf[key] = <<>>

RcvSaveLookup ==
    /\ Alive /\ pc["rcv"] = "save_lookup"
    /\ LET key == audioKey(rcvMsg.rid, rcvMsg.iid) IN
         IF SaveLookupFails(AudioBuffer, key)
           THEN DoneCaseEnds(key, TRUE, <<>>, ~appendedSince[key])
           ELSE /\ rcvData' = AudioBuffer[key]
                /\ lastDone' = [lastDone EXCEPT !.fresh = ~appendedSince[key]]
                /\ Goto("rcv", "save_write")
                /\ UNCHANGED <<audioFiles, rcvMsg>>
    /\ UNCHANGED <<AudioChannel, AudioBuffer, asmChunk, saved, recvd, appendedSince,
                   wg, rcvRest>>
    /\ UNCHANGED netLog
    /\ UNCHANGED restVars

\* saveAudioOnly: os.Create, writeWAVHeader, file.Write. A failure returns the
\* error and leaves the map as it is.
RcvSaveWrite ==
    /\ Alive /\ pc["rcv"] = "save_write"
    /\ LET key == audioKey(rcvMsg.rid, rcvMsg.iid) IN
       \E ok \in BOOLEAN :
         IF ok
           THEN /\ saved' = Append(saved, [key |-> key, data |-> rcvData])
                /\ Goto("rcv", "save_delete")
                /\ UNCHANGED <<audioFiles, rcvMsg, rcvData, lastDone>>
           ELSE /\ DoneCaseEnds(key, TRUE, <<>>, lastDone.fresh)
                /\ UNCHANGED saved
    /\ UNCHANGED <<AudioChannel, AudioBuffer, asmChunk, recvd, appendedSince,
                   wg, rcvRest>>
    /\ UNCHANGED netLog
    /\ UNCHANGED restVars

\* Mutant of AfterDrain: the entry is kept after the write.
AfterDrainKeeps(buf, key) == buf

\* The map saveAudioOnly leaves after a successful write: the key is deleted.
AfterDrain(buf, key) == MapDelete(buf, key)

\* saveAudioOnly, second locked region: delete(c.AudioBuffer, audioKey).
RcvSaveDelete ==
    /\ Alive /\ pc["rcv"] = "save_delete"
    /\ LET key == audioKey(rcvMsg.rid, rcvMsg.iid) IN
         /\ AudioBuffer' = AfterDrain(AudioBuffer, key)
         /\ appendedSince' = [appendedSince EXCEPT ![key] = FALSE]
         /\ DoneCaseEnds(key, FALSE, rcvData, lastDone.fresh)
    /\ UNCHANGED <<AudioChannel, asmChunk, saved, recvd, wg, rcvRest>>
    /\ UNCHANGED netLog
    /\ UNCHANGED restVars

\* ---------------------------------------------------- audioProcessingRoutine
\* audioProcessingRoutine's select, second case: a chunk is taken from the queue.
AsmRecv ==
    /\ Alive /\ pc["asm"] = "select"
    /\ AudioChannel # <<>>
    /\ asmChunk' = Head(AudioChannel)
    /\ AudioChannel' = Tail(AudioChannel)
    /\ Goto("asm", "handle")
    /\ UNCHANGED <<AudioBuffer, audioFiles, rcvMsg, rcvData, saved, histVars, wg, rcvRest>>
    /\ UNCHANGED restVars

\* The key handleAudioChunk files a chunk under.
ChunkKey(chunk) == audioKey(chunk.rid, chunk.iid)

\* Mutant of AppendChunk: the bytes go to every open buffer.
AppendChunkAll(buf, chunk) ==
    [k \in DOMAIN buf \cup {ChunkKey(chunk)} |->
        (IF k \in DOMAIN buf THEN buf[k] ELSE <<>>) \o chunk.data]

\* The map handleAudioChunk leaves: the chunk's bytes appended to its key's
\* buffer, which is created when missing.
AppendChunk(buf, chunk) ==
    LET key == ChunkKey(chunk)
        old == IF key \in DOMAIN buf THEN buf[key] ELSE <<>>
    IN MapPut(buf, key, old \o chunk.data)

\* handleAudioChunk, under AudioMutex.
AsmHandle ==
    /\ Alive /\ pc["asm"] = "handle"
    /\ AudioBuffer' = AppendChunk(AudioBuffer, asmChunk)
    /\ appendedSince' = [appendedSince EXCEPT ![ChunkKey(asmChunk)] = TRUE]
    /\ asmChunk' = NoChunk
    /\ Goto("asm", "select")
    /\ UNCHANGED <<AudioChannel, audioFiles, rcvMsg, rcvData, saved, recvd, lastDone,
                   wg, rcvRest>>
    /\ UNCHANGED netLog
    /\ UNCHANGED restVars

\* audioProcessingRoutine's select: Done is closed, or the queue is closed and
\* empty; the routine returns (deferred WG.Done).
AsmReturn ==
    /\ Alive /\ pc["asm"] = "select"
    /\ DoneClosed \/ (IsClosed("AudioChannel") /\ AudioChannel = <<>>)
    /\ Goto("asm", "done")
    /\ wg' = wg - 1
    /\ UNCHANGED <<audioVars, histVars, rcvRest>>
    /\ UNCHANGED restVars

\* ------------------------------------------------------------ specification
Next ==
    \/ StartWriteSession
    \/ StartSpawnReceiver
    \/ UserQuit
    \/ Interrupt
    \/ \E p \in Callers : ShutdownEnter(p)
    \/ \E p \in Callers : ShutdownSelect(p)
    \/ \E p \in Callers : ShutdownSkip(p)
    \/ GoCloseFrame
    \/ GoCloseConn
    \/ GoCloseLogger
    \/ GoWait
    \/ \E ch \in {"MessageChannel", "DisplayChannel", "AudioChannel"} : GoCloseChannel(ch)
    \/ GoComplete
    \/ RcvSelect
    \/ RcvReadError
    \/ RcvReadClosed
    \/ RcvReadDelta
    \/ RcvHandoffSend
    \/ RcvHandoffAbort
    \/ RcvReadDone
    \/ RcvReadOther
    \/ RcvSaveLookup
    \/ RcvSaveWrite
    \/ RcvSaveDelete
    \/ AsmRecv
    \/ AsmHandle
    \/ AsmReturn

Spec == Init /\ [][Next]_vars

\* Fairness of the scheduler and of the shutdown timer only: every call of
\* shutdown is scheduled and the timeout of its select fires; no other task is
\* promised any progress.
ShutdownFairness ==
    \A p \in Callers :
        /\ WF_vars(ShutdownEnter(p))
        /\ WF_vars(ShutdownSelect(p))
        /\ WF_vars(ShutdownSkip(p))

ShutdownFairSpec == Spec /\ ShutdownFairness

\* Fairness of the scheduler for every step the program can take on its own:
\* all steps but those waiting for the user, the interrupt or the network.
Fairness ==
    /\ ShutdownFairness
    /\ WF_vars(StartWriteSession)
    /\ WF_vars(StartSpawnReceiver)
    /\ WF_vars(GoCloseFrame)
    /\ WF_vars(GoCloseConn)
    /\ WF_vars(GoCloseLogger)
    /\ WF_vars(GoWait)
    /\ \A ch \in {"MessageChannel", "DisplayChannel", "AudioChannel"} : WF_vars(GoCloseChannel(ch))
    /\ WF_vars(GoComplete)
    /\ WF_vars(RcvSelect)
    /\ WF_vars(RcvReadClosed)
    /\ WF_vars(RcvHandoffSend)
    /\ WF_vars(RcvHandoffAbort)
    /\ WF_vars(RcvSaveLookup)
    /\ WF_vars(RcvSaveWrite)
    /\ WF_vars(RcvSaveDelete)
    /\ WF_vars(AsmRecv)
    /\ WF_vars(AsmHandle)
    /\ WF_vars(AsmReturn)

FairSpec == Spec /\ Fairness

\* ------------------------------------------------------------------ claims
KeyOf(b) == audioKey(b.src[1], b.src[2])
BufOf(buf, k) == IF k \in DOMAIN buf THEN buf[k] ELSE <<>>
Range(s) == {s[i] : i \in DOMAIN s}

\* C1: when a response.audio.done frame for key K has been processed, the audio
\* drained and persisted for it is exactly the concatenation, in arrival order,
\* of the payloads of K's delta frames received before it.
C1_DrainIsConcatenation ==
    lastDone.state = "finished" => lastDone.actual = lastDone.expected

\* C2: buffers of different keys are independent. Every buffer and every
\* persisted artifact of a key holds only bytes of that key's own fragments;
\* appending a fragment for one key leaves every other key's buffer unchanged;
\* draining one key leaves every other key's buffer unchanged.
C2_OnlyOwnBytes ==
    /\ \A k \in DOMAIN AudioBuffer : \A b \in Range(AudioBuffer[k]) : KeyOf(b) = k
    /\ \A i \in DOMAIN saved : \A b \in Range(saved[i].data) : KeyOf(b) = saved[i].key

C2_AppendFrame ==
    (pc["asm"] = "handle" /\ pc'["asm"] = "select") =>
        \A k \in (DOMAIN AudioBuffer \cup DOMAIN AudioBuffer' \cup AudioKeys) :
            k # audioKey(asmChunk.rid, asmChunk.iid) =>
                /\ (k \in DOMAIN AudioBuffer) = (k \in DOMAIN AudioBuffer')
                /\ BufOf(AudioBuffer', k) = BufOf(AudioBuffer, k)

C2_DrainFrame ==
    (pc["rcv"] = "save_delete" /\ pc'["rcv"] = "select") =>
        \A k \in (DOMAIN AudioBuffer \cup DOMAIN AudioBuffer' \cup AudioKeys) :
            k # audioKey(rcvMsg.rid, rcvMsg.iid) =>
                /\ (k \in DOMAIN AudioBuffer) = (k \in DOMAIN AudioBuffer')
                /\ BufOf(AudioBuffer', k) = BufOf(AudioBuffer, k)

C2_KeysIndependent ==
    /\ []C2_OnlyOwnBytes
    /\ [][C2_AppendFrame /\ C2_DrainFrame]_vars

\* C2 witness: one key has been drained to an artifact while the other key's
\* buffer holds that key's fragment.
C2_Witness ==
    \E i \in DOMAIN saved : \E k \in DOMAIN AudioBuffer :
        /\ k # saved[i].key
        /\ saved[i].data # <<>>
        /\ AudioBuffer[k] # <<>>

\* C3: a drain of a key that was never written, or that was drained with
\* success and got no fragment since, fails and persists nothing; no byte is
\* persisted twice.
C3_DrainOfFreshKeyFails ==
    /\ (lastDone.state = "finished" /\ lastDone.fresh) =>
           (lastDone.err /\ lastDone.actual = <<>>)
    /\ (pc["rcv"] \in {"save_write", "save_delete"}) => ~lastDone.fresh
    /\ \A i, j \in DOMAIN saved :
           i # j => Range(saved[i].data) \cap Range(saved[j].data) = {}

\* C3 witness: a second drain of a key, after a successful one and with no
\* fragment in between, has failed.
C3_Witness ==
    /\ lastDone.state = "finished" /\ lastDone.fresh /\ lastDone.err
    /\ \E i \in DOMAIN saved : saved[i].key = lastDone.key

\* C4: however many tasks call shutdown, the close sequence runs once: nothing
\* is closed twice, no step of the sequence is repeated, Done is closed as soon
\* as a call was admitted, and when the sequence has run to its end Done, the
\* connection, the logger and every channel have each been closed exactly once.
C4_ShutdownOnce ==
    /\ \A x \in Closeables : closeCount[x] <= 1
    /\ \A i, j \in DOMAIN goLog : i # j => goLog[i] # goLog[j]
    /\ once # "idle" => closeCount["Done"] = 1
    /\ complete => \A x \in Closeables : closeCount[x] = 1

\* C4 witness: two callers (the interrupt handler and Start) have both called
\* shutdown and returned, and the connection is closed.
C4_Witness ==
    /\ pc["sig"] = "done" /\ pc["main"] = "exited"
    /\ closeCount["Conn"] = 1

\* Position of a step in the goroutine's log (0: not performed).
Pos(step) == IF \E i \in DOMAIN goLog : goLog[i] = step
               THEN CHOOSE i \in DOMAIN goLog : goLog[i] = step
               ELSE 0
Before(a, b) == Pos(b) > 0 => (Pos(a) > 0 /\ Pos(a) < Pos(b))
InternalChannels == {"MessageChannel", "DisplayChannel", "AudioChannel"}

C7_TimeoutStillClosesChannels ==
    (once = "done" /\ sdResult = "timeout" /\ Pos("close_logger") > 0 /\ wg > 0) =>
        \A ch \in InternalChannels : IsClosed(ch)

InShutdown(p) == pc[p] \in {"sd_call", "sd_select"}

\* C5: every call of shutdown returns to its caller (or the process has ended
\* meanwhile), whether or not the tracked tasks ever terminate: only the
\* scheduling of the callers and the timeout of the select are relied on.
C5_ShutdownReturns ==
    \A p \in Callers : InShutdown(p) ~> (~InShutdown(p) \/ ~Alive)

\* C5 witness: shutdown has returned on the timeout while a tracked task had not
\* reported completion.
C5_Witness == once = "done" /\ sdResult = "timeout" /\ wg > 0 /\ pc["sig"] = "done"

\* The tracked tasks have terminated and reported completion to the wait group.
TasksDone ==
    /\ pc["asm"] = "done"
    /\ pc["rcv"] = "done" \/ (pc["rcv"] = "unborn" /\ pc["main"] \notin {"start", "start_add"})
    /\ wg = 0

\* C8: once Done is closed, the receiver and the assembler terminate and
\* report completion (or the process has ended meanwhile) with no further
\* frame from the network.
C8_TasksTerminateAfterDone == DoneClosed ~> (TasksDone \/ ~Alive)

\* Chunks of key k waiting in the queue.
QueuedFor(k) ==
    Cardinality({i \in DOMAIN AudioChannel :
                    audioKey(AudioChannel[i].rid, AudioChannel[i].iid) = k})

\* C8 witness: both tasks have terminated after Done was closed, the queue is
\* full, and a received chunk is neither queued nor buffered nor saved: the
\* receiver was blocked handing it to the full queue and gave it up on Done.
C8_Witness ==
    /\ DoneClosed /\ TasksDone /\ Alive
    /\ Len(AudioChannel) = AudioChannelCap
    /\ saved = <<>> /\ lastDone.state = "none" /\ asmChunk = NoChunk
    /\ \E k \in AudioKeys : Len(recvd[k]) > QueuedFor(k) + Len(BufOf(AudioBuffer, k))

\* C9: after shutdown has run and returned, whatever triggered it, Start
\* returns and the process ends.
C9_ProcessEndsAfterShutdown == (once = "done") ~> (pc["main"] = "exited")

\* ------------------------------------------------------------ sendAudioMessage
\* Longest raw sample data (bytes after the 44-byte header) of a file in the model.
MaxRawLen == 4
\* Largest chunk size in the model (the program uses 16*1024).
MaxChunkSize == 3
\* Byte values the samples are drawn from.
ByteSamples == {0, 77, 255}

RECURSIVE SeqsUpTo(_, _)
SeqsUpTo(S, n) ==
    IF n = 0 THEN {<<>>}
    ELSE LET shorter == SeqsUpTo(S, n - 1)
         IN shorter \cup {Append(s, x) : s \in {t \in shorter : Len(t) = n - 1}, x \in S}

\* Marks the padding character '=' among the 6-bit values 0..63.
Pad == 64

\* base64.StdEncoding.EncodeToString: three bytes to four 6-bit characters, the
\* last group padded.
RECURSIVE Base64Encode(_)
Base64Encode(bytes) ==
    IF Len(bytes) = 0 THEN <<>>
    ELSE IF Len(bytes) = 1 THEN
        <<bytes[1] \div 4, (bytes[1] % 4) * 16, Pad, Pad>>
    ELSE IF Len(bytes) = 2 THEN
        <<bytes[1] \div 4, (bytes[1] % 4) * 16 + bytes[2] \div 16, (bytes[2] % 16) * 4, Pad>>
    ELSE
        <<bytes[1] \div 4, (bytes[1] % 4) * 16 + bytes[2] \div 16,
          (bytes[2] % 16) * 4 + bytes[3] \div 64, bytes[3] % 64>>
        \o Base64Encode(SubSeq(bytes, 4, Len(bytes)))

\* base64.StdEncoding.DecodeString on well-formed input: four characters to up
\* to three bytes.
RECURSIVE Base64Decode(_)
Base64Decode(chars) ==
    IF Len(chars) < 4 THEN <<>>
    ELSE LET c == chars
             b1 == c[1] * 4 + c[2] \div 16
             b2 == (c[2] % 16) * 16 + c[3] \div 4
             b3 == (c[3] % 4) * 64 + c[4]
         IN (IF c[3] = Pad THEN <<b1>>
             ELSE IF c[4] = Pad THEN <<b1, b2>>
             ELSE <<b1, b2, b3>>)
            \o Base64Decode(SubSeq(chars, 5, Len(chars)))

\* ------------------------------------------------------- the WAV container
\* Numbers wider than 16 bits are kept as 16-bit limbs, low limb first: a Go
\* int (a length, a file size) has three limbs here, a uint32 has two.
IntOf(n) == <<n % 65536, n \div 65536, 0>>
W32(n) == <<n % 65536, n \div 65536>>

\* l + k for a Go int l and a small k.
AddInt(l, k) ==
    LET s1 == l[1] + k
        s2 == l[2] + s1 \div 65536
    IN <<s1 % 65536, s2 % 65536, l[3] + s2 \div 65536>>

\* w + k in uint32 arithmetic, which wraps around at 2^32.
Add32(w, k) ==
    LET s1 == w[1] + k
    IN <<s1 % 65536, (w[2] + s1 \div 65536) % 65536>>

\* uint32(x) of a Go int: the low 32 bits.
Uint32(l) == <<l[1], l[2]>>

\* binary.Write(file, binary.LittleEndian, v) of a uint16 and of a uint32.
LE16(x) == <<x % 256, (x \div 256) % 256>>
LE32(w) == LE16(w[1]) \o LE16(w[2])

\* binary.Read of a uint16 and of a uint32 at byte offset off.
U16(b, off) == b[off + 1] + 256 * b[off + 2]
U32(b, off) == <<U16(b, off), U16(b, off + 2)>>

\* The four-byte markers 'R','I','F','F', 'W','A','V','E', 'f','m','t',' ' and
\* 'd','a','t','a' as byte values.
RIFF == <<82, 73, 70, 70>>
WAVE == <<87, 65, 86, 69>>
FmtID == <<102, 109, 116, 32>>
DataID == <<100, 97, 116, 97>>

\* Mutant of writeWAVHeader: the format code and the channel count change places
\* with the bit depth (16 where 1 belongs).
writeWAVHeaderSwapped(dataSize) ==
    RIFF \o LE32(Add32(dataSize, 36)) \o WAVE \o FmtID \o LE32(W32(16))
         \o LE16(16) \o LE16(1) \o LE32(W32(24000)) \o LE32(W32(48000)) \o LE16(2) \o LE16(1)
         \o DataID \o LE32(dataSize)

\* writeWAVHeader: the thirteen values written in order, little-endian.
writeWAVHeader(dataSize) ==
    RIFF \o LE32(Add32(dataSize, 36)) \o WAVE \o FmtID \o LE32(W32(16))
         \o LE16(1) \o LE16(1) \o LE32(W32(24000)) \o LE32(W32(48000)) \o LE16(2) \o LE16(16)
         \o DataID \o LE32(dataSize)

\* Offset and width of each field of the WAVHeader struct that binary.Read fills.
WAVHeaderLayout ==
    [ChunkID       |-> [off |-> 0,  w |-> 4], ChunkSize     |-> [off |-> 4,  w |-> 4],
     Format        |-> [off |-> 8,  w |-> 4], Subchunk1ID   |-> [off |-> 12, w |-> 4],
     Subchunk1Size |-> [off |-> 16, w |-> 4], AudioFormat   |-> [off |-> 20, w |-> 2],
     NumChannels   |-> [off |-> 22, w |-> 2], SampleRate    |-> [off |-> 24, w |-> 4],
     ByteRate      |-> [off |-> 28, w |-> 4], BlockAlign    |-> [off |-> 32, w |-> 2],
     BitsPerSample |-> [off |-> 34, w |-> 2]]

\* binary.Read(file, binary.LittleEndian, &header): the struct read from the
\* first 36 bytes.
ReadWAVHeader(b) ==
    [ChunkID       |-> SubSeq(b, 1, 4),   ChunkSize     |-> U32(b, 4),
     Format        |-> SubSeq(b, 9, 12),  Subchunk1ID   |-> SubSeq(b, 13, 16),
     Subchunk1Size |-> U32(b, 16),        AudioFormat   |-> U16(b, 20),
     NumChannels   |-> U16(b, 22),        SampleRate    |-> U32(b, 24),
     ByteRate      |-> U32(b, 28),        BlockAlign    |-> U16(b, 32),
     BitsPerSample |-> U16(b, 34)]

\* Mutant of validateWAVFormat: the channel count is reported as a bit-depth problem.
validateWAVFormatOneReason(b) ==
    IF Len(b) < 36 THEN <<"read WAV header", "unexpected EOF">>
    ELSE LET header == ReadWAVHeader(b) IN
         IF header.ChunkID # RIFF \/ header.Format # WAVE \/ header.Subchunk1ID # FmtID
           THEN <<"invalid WAV format">>
         ELSE IF header.AudioFormat # 1
           THEN <<"audio must be PCM format", header.AudioFormat>>
         ELSE IF header.BitsPerSample # 16
           THEN <<"audio must be 16-bit", header.BitsPerSample>>
         ELSE IF header.NumChannels # 1
           THEN <<"audio must be 16-bit", header.NumChannels>>
         ELSE IF header.SampleRate # W32(24000)
           THEN <<"sample rate must be 24000Hz", header.SampleRate>>
         ELSE <<>>

\* validateWAVFormat: the error it returns as <<text, value>>, <<>> for nil.
validateWAVFormat(b) ==
    IF Len(b) < 36 THEN <<"read WAV header", "unexpected EOF">>
    ELSE LET header == ReadWAVHeader(b) IN
         IF header.ChunkID # RIFF \/ header.Format # WAVE \/ header.Subchunk1ID # FmtID
           THEN <<"invalid WAV format">>
         ELSE IF header.AudioFormat # 1
           THEN <<"audio must be PCM format", header.AudioFormat>>
         ELSE IF header.BitsPerSample # 16
           THEN <<"audio must be 16-bit", header.BitsPerSample>>
         ELSE IF header.NumChannels # 1
           THEN <<"audio must be mono", header.NumChannels>>
         ELSE IF header.SampleRate # W32(24000)
           THEN <<"sample rate must be 24000Hz", header.SampleRate>>
         ELSE <<>>

\* Mutant of ReadN: a read that returns only full buffers.
ReadNFullOnly(raw, off, size) == IF Len(raw) - off >= size THEN size ELSE 0

\* file.Read(buffer) on a regular file: the bytes read are those left, up to
\* len(buffer); 0 (with io.EOF) at the end of the file.
ReadN(raw, off, size) == IF Len(raw) - off < size THEN Len(raw) - off ELSE size

\* The header fields validateWAVFormat looks at.
MarkerFields == {"ChunkID", "Format", "Subchunk1ID"}
FormatFields == {"AudioFormat", "NumChannels", "SampleRate", "BitsPerSample"}

\* Values of those fields in files this program did not write: big-endian RIFX,
\* an AVI container, a JUNK chunk before the format chunk; float and A-law
\* samples; stereo; 44.1 kHz and 16 kHz; 8 and 24 bits.
OtherValues ==
    [ChunkID       |-> {<<82, 73, 70, 88>>},
     Format        |-> {<<65, 86, 73, 32>>},
     Subchunk1ID   |-> {<<74, 85, 78, 75>>},
     AudioFormat   |-> {LE16(3), LE16(6)},
     NumChannels   |-> {LE16(2)},
     SampleRate    |-> {LE32(W32(44100)), LE32(W32(16000))},
     BitsPerSample |-> {LE16(8), LE16(24)}]

\* The header b with field f holding the bytes v.
Patch(b, f, v) ==
    [i \in 1..Len(b) |->
        IF i > WAVHeaderLayout[f].off /\ i <= WAVHeaderLayout[f].off + WAVHeaderLayout[f].w
          THEN v[i - WAVHeaderLayout[f].off] ELSE b[i]]

\* Headers that differ from b in at most n of those fields.
RECURSIVE ForeignHeaders(_, _)
ForeignHeaders(b, n) ==
    IF n = 0 THEN {b}
    ELSE LET fewer == ForeignHeaders(b, n - 1)
         IN fewer \cup UNION {{Patch(x, f, v) : x \in fewer, v \in OtherValues[f]} :
                                  f \in MarkerFields \cup FormatFields}

\* sendAudioMessage is called with the path of a file: one that holds a header
\* as saveAudioOnly writes it, or one that differs from it in one field.
SendInit ==
    /\ ClientInit
    /\ sPc = "open"
    /\ sRaw \in SeqsUpTo(ByteSamples, MaxRawLen)
    /\ sChunk \in 1..MaxChunkSize
    /\ sOff = 0
    /\ sEvents = <<>>
    /\ sErr = FALSE
    /\ sHeader \in ForeignHeaders(writeWAVHeader(W32(Len(sRaw))), 1)
    /\ sSize = IntOf(44 + Len(sRaw))
    /\ sRet = <<>>
    /\ sWrites = <<>>
    /\ sDone = <<>>
    /\ pcmLen = IntOf(0)
    /\ RetryIdle /\ LaterIdle

\* os.Open and file.Stat: a failure returns the wrapped error.
SendOpen ==
    /\ sPc = "open"
    /\ \E ok \in BOOLEAN :
          IF ok
            THEN sPc' = "validate" /\ UNCHANGED <<sErr, sRet>>
            ELSE sPc' = "returned" /\ sErr' = TRUE /\ sRet' = <<"open audio file", "open error">>
    /\ UNCHANGED <<sRaw, sChunk, sOff, sEvents, sHeader, sSize, sWrites, sDone, pcmLen, clientVars>>
    /\ UNCHANGED otherVars

\* c.validateWAVFormat(file), then file.Seek(44, 0): an invalid header returns
\* the wrapped error before anything is written.
SendValidate ==
    /\ sPc = "validate"
    /\ LET err == validateWAVFormat(sHeader) IN
         IF err # <<>>
           THEN sPc' = "returned" /\ sErr' = TRUE /\ sRet' = <<"invalid audio format">> \o err
           ELSE sPc' = "create" /\ UNCHANGED <<sErr, sRet>>
    /\ UNCHANGED <<sRaw, sChunk, sOff, sEvents, sHeader, sSize, sWrites, sDone, pcmLen, clientVars>>
    /\ UNCHANGED otherVars

\* Mutant of WriteJSON: the error of a failed write is dropped.
WriteJSONIgnoresError(event, next) ==
    \E ok \in BOOLEAN :
        /\ ok => ~IsClosed("Conn")
        /\ sWrites' = Append(sWrites, [event |-> event, ok |-> ok])
        /\ sEvents' = IF ok THEN Append(sEvents, event) ELSE sEvents
        /\ sPc' = next
        /\ sErr' = FALSE

\* c.Conn.WriteJSON(v): the event goes out, or the write fails (as it does on
\* a closed connection) and sendAudioMessage returns the error.
WriteJSON(event, next) ==
    \E ok \in BOOLEAN :
        /\ ok => ~IsClosed("Conn")
        /\ sWrites' = Append(sWrites, [event |-> event, ok |-> ok])
        /\ IF ok
             THEN sEvents' = Append(sEvents, event) /\ sPc' = next /\ sErr' = FALSE
             ELSE sEvents' = sEvents /\ sPc' = "returned" /\ sErr' = TRUE

\* What sendAudioMessage returns after a write: the write's error wrapped in
\* the text of the step, or nothing yet.
WriteResult(wrap) == sRet' = IF sErr' THEN <<wrap, "write error">> ELSE <<>>

\* The conversation.item.create event that references the audio.
SendCreateItem ==
    /\ sPc = "create"
    /\ WriteJSON([type |-> "conversation.item.create", id |-> 0, audio |-> <<>>], "read")
    /\ WriteResult("write conversation item")
    /\ UNCHANGED <<sRaw, sChunk, sOff, sHeader, sSize, sDone, pcmLen, clientVars>>
    /\ UNCHANGED otherVars

AppendsIn(events) == SelectSeq(events, LAMBDA e : e.type = "input_audio_buffer.append")
CommitsIn(events) == SelectSeq(events, LAMBDA e : e.type = "input_audio_buffer.commit")

\* Mutant of SendAppendChunk: chunkCount is incremented after the event is built.
SendAppendChunkStaleID ==
    /\ sPc = "read"
    /\ LET n == ReadN(sRaw, sOff, sChunk) IN
         /\ n > 0
         /\ WriteJSON([type |-> "input_audio_buffer.append",
                       id |-> Len(AppendsIn(sEvents)),
                       audio |-> Base64Encode(SubSeq(sRaw, sOff + 1, sOff + n))], "read")
         /\ sOff' = sOff + n
    /\ WriteResult("write audio chunk")
    /\ UNCHANGED <<sRaw, sChunk, sHeader, sSize, sDone, pcmLen, clientVars>>
    /\ UNCHANGED otherVars

\* One turn of the chunk loop with n > 0: the chunk is encoded and sent.
SendAppendChunk ==
    /\ sPc = "read"
    /\ LET n == ReadN(sRaw, sOff, sChunk) IN
         /\ n > 0
         /\ WriteJSON([type |-> "input_audio_buffer.append",
                       id |-> Len(AppendsIn(sEvents)) + 1,
                       audio |-> Base64Encode(SubSeq(sRaw, sOff + 1, sOff + n))], "read")
         /\ sOff' = sOff + n
    /\ WriteResult("write audio chunk")
    /\ UNCHANGED <<sRaw, sChunk, sHeader, sSize, sDone, pcmLen, clientVars>>
    /\ UNCHANGED otherVars

\* The turn of the chunk loop that reads io.EOF: the commit is sent and the loop ends.
SendCommit ==
    /\ sPc = "read"
    /\ ReadN(sRaw, sOff, sChunk) = 0
    /\ WriteJSON([type |-> "input_audio_buffer.commit", id |-> Len(AppendsIn(sEvents)),
                  audio |-> <<>>], "response")
    /\ WriteResult("write audio commit")
    /\ UNCHANGED <<sRaw, sChunk, sOff, sHeader, sSize, sDone, pcmLen, clientVars>>
    /\ UNCHANGED otherVars

\* The response.create event; sendAudioMessage returns nil after it.
SendResponseCreate ==
    /\ sPc = "response"
    /\ WriteJSON([type |-> "response.create", id |-> 0, audio |-> <<>>], "returned")
    /\ WriteResult("write response create")
    /\ UNCHANGED <<sRaw, sChunk, sOff, sHeader, sSize, sDone, pcmLen, clientVars>>
    /\ UNCHANGED otherVars

SendNext ==
    \/ SendOpen
    \/ SendValidate
    \/ SendCreateItem
    \/ SendAppendChunk
    \/ SendCommit
    \/ SendResponseCreate

SendSpec == SendInit /\ [][SendNext]_vars

RECURSIVE DecodedConcat(_)
DecodedConcat(events) ==
    IF events = <<>> THEN <<>>
    ELSE Base64Decode(Head(events).audio) \o DecodedConcat(Tail(events))

CeilDiv(a, b) == (a + b - 1) \div b

\* C10: a successful sendAudioMessage of a file with S raw bytes and chunk size
\* C has emitted exactly ceil(S/C) append events, then exactly one commit event,
\* and the decoded append payloads, concatenated in emission order, are the S
\* raw bytes.
C10_ChunksThenCommit ==
    (sPc = "returned" /\ ~sErr) =>
        /\ Len(AppendsIn(sEvents)) = CeilDiv(Len(sRaw), sChunk)
        /\ Len(CommitsIn(sEvents)) = 1
        /\ \A i \in DOMAIN sEvents :
              sEvents[i].type = "input_audio_buffer.append" =>
                  \E j \in DOMAIN sEvents :
                      j > i /\ sEvents[j].type = "input_audio_buffer.commit"
        /\ \A i \in DOMAIN sEvents :
              sEvents[i].type = "input_audio_buffer.commit" =>
                  \A j \in DOMAIN sEvents :
                      j > i => sEvents[j].type # "input_audio_buffer.append"
        /\ DecodedConcat(AppendsIn(sEvents)) = sRaw

\* C10 witness: a file whose size is not a multiple of the chunk size has been
\* sent in several chunks, the last one short.
C10_Witness ==
    /\ sPc = "returned" /\ ~sErr
    /\ Len(sRaw) > sChunk /\ Len(sRaw) % sChunk # 0
    /\ Len(AppendsIn(sEvents)) > 1

\* ------------------------------------------------- claims on sendAudioMessage
\* C11: the events of a send go out in the order conversation.item.create, the
\* input_audio_buffer.append events, one input_audio_buffer.commit, one
\* response.create; the i-th append carries the identifier evt_audio_i (its
\* number i here); nothing follows the commit but the response.create; a
\* successful send has emitted the whole sequence.
C11_EventOrder ==
    LET k == Len(AppendsIn(sEvents)) IN
    /\ Len(sEvents) <= k + 3
    /\ \A i \in DOMAIN sEvents :
          /\ i = 1 => sEvents[i].type = "conversation.item.create"
          /\ (i >= 2 /\ i <= k + 1) =>
                sEvents[i].type = "input_audio_buffer.append" /\ sEvents[i].id = i - 1
          /\ i = k + 2 => sEvents[i].type = "input_audio_buffer.commit"
          /\ i = k + 3 => sEvents[i].type = "response.create"
    /\ (sPc = "returned" /\ ~sErr) => Len(sEvents) = k + 3

\* C11 witness: a send with several chunks has returned without error.
C11_Witness ==
    /\ sPc = "returned" /\ ~sErr
    /\ Len(AppendsIn(sEvents)) >= 2
    /\ sEvents[Len(sEvents)].type = "response.create"

\* The events of the writes that succeeded, in order.
RECURSIVE WrittenOf(_)
WrittenOf(writes) ==
    IF writes = <<>> THEN <<>>
    ELSE (IF Head(writes).ok THEN <<Head(writes).event>> ELSE <<>>) \o WrittenOf(Tail(writes))

\* C12: a write that fails is the last write of the send: sendAudioMessage has
\* returned an error that wraps the write's error, and the events emitted are
\* those of the writes before it.
C12_FailedWriteAborts ==
    /\ sEvents = WrittenOf(sWrites)
    /\ \A i \in DOMAIN sWrites :
          ~sWrites[i].ok =>
              /\ i = Len(sWrites)
              /\ sPc = "returned" /\ sErr
              /\ Len(sRet) = 2 /\ sRet[2] = "write error"
              /\ sEvents = [j \in 1..(i - 1) |-> sWrites[j].event]

\* C12 witness: an append has failed after an append that went out; neither a
\* commit nor a response.create was emitted.
C12_Witness ==
    /\ sErr /\ sWrites # <<>>
    /\ sWrites[Len(sWrites)].event.type = "input_audio_buffer.append"
    /\ Len(AppendsIn(sEvents)) >= 1
    /\ CommitsIn(sEvents) = <<>>

\* ClientConfig.MaxRetries as DefaultConfig sets it.
MaxRetries == 3

\* C13: when the upload is aborted because an input_audio_buffer.append write
\* failed, that write was attempted MaxRetries times.
C13_AppendWriteRetried ==
    \A i \in DOMAIN sWrites :
        (sWrites[i].event.type = "input_audio_buffer.append" /\ ~sWrites[i].ok /\ sPc = "returned")
            => Cardinality({j \in DOMAIN sWrites : sWrites[j].event = sWrites[i].event}) = MaxRetries

\* --------------------------------------------- Start's input loop with sends
\* Calls of sendAudioMessage in one run.
MaxSends == 2

\* The files the user names with "/audio <path>": up to one raw byte after a
\* header as saveAudioOnly writes it, or after one that differs in one field.
UserFiles ==
    UNION {{[header |-> h, raw |-> r] : h \in ForeignHeaders(writeWAVHeader(W32(Len(r))), 1)} :
           r \in SeqsUpTo(ByteSamples, 1)}

\* Start's input loop reads "/audio <path>": parseUserInput, sendMessage,
\* sendAudioMessage(path). The chunk size is DefaultAudioChunkConfig's.
UserAudioLine ==
    /\ Alive /\ pc["main"] = "input" /\ sPc = "idle"
    /\ Len(sDone) < MaxSends
    /\ \E f \in UserFiles :
          /\ sRaw' = f.raw
          /\ sHeader' = f.header
          /\ sSize' = IntOf(44 + Len(f.raw))
    /\ sChunk' = MaxChunkSize
    /\ sOff' = 0 /\ sEvents' = <<>> /\ sErr' = FALSE /\ sRet' = <<>> /\ sWrites' = <<>>
    /\ sPc' = "open"
    /\ Goto("main", "sending")
    /\ UNCHANGED <<sDone, pcmLen, shutdownVars, audioVars, histVars, wg, netSent, panicked>>
    /\ UNCHANGED restVars

\* Mutant of AfterSend: an error of the send ends the input loop.
AfterSendFatal(err) == IF err # <<>> THEN "sd_call" ELSE "input"

\* Where Start goes when sendMessage has returned err: the error is logged and
\* the loop reads the next line.
AfterSend(err) == "input"

\* sendMessage returns to Start's input loop.
StartSendReturns ==
    /\ Alive /\ pc["main"] = "sending" /\ sPc = "returned"
    /\ sDone' = Append(sDone, IF sRet = <<>> THEN "" ELSE sRet[1])
    /\ Goto("main", AfterSend(sRet))
    /\ sPc' = "idle" /\ sRaw' = <<>> /\ sChunk' = 1 /\ sOff' = 0 /\ sEvents' = <<>>
    /\ sErr' = FALSE /\ sHeader' = <<>> /\ sSize' = <<0, 0, 0>> /\ sRet' = <<>> /\ sWrites' = <<>>
    /\ UNCHANGED <<pcmLen, shutdownVars, audioVars, histVars, wg, netSent, panicked>>
    /\ UNCHANGED restVars

\* The client with a user who sends audio files, on a connection that delivers
\* no frame.
InputNext ==
    \/ StartWriteSession
    \/ StartSpawnReceiver
    \/ UserAudioLine
    \/ SendOpen
    \/ SendValidate
    \/ SendCreateItem
    \/ SendAppendChunk
    \/ SendCommit
    \/ SendResponseCreate
    \/ StartSendReturns
    \/ UserQuit
    \/ Interrupt
    \/ \E p \in Callers : ShutdownEnter(p)
    \/ \E p \in Callers : ShutdownSelect(p)
    \/ \E p \in Callers : ShutdownSkip(p)
    \/ GoCloseFrame
    \/ GoCloseConn
    \/ GoCloseLogger
    \/ GoWait
    \/ \E ch \in {"MessageChannel", "DisplayChannel", "AudioChannel"} : GoCloseChannel(ch)
    \/ GoComplete
    \/ RcvSelect
    \/ RcvReadError
    \/ RcvReadClosed
    \/ AsmReturn

InputSpec == Init /\ [][InputNext]_vars

\* sendAudioMessage has returned the error of the header validation.
ValidationFailed == sPc = "returned" /\ sRet # <<>> /\ sRet[1] = "invalid audio format"

C14_NothingEmitted ==
    ValidationFailed => (sWrites = <<>> /\ sEvents = <<>> /\ Len(sRet) >= 2)

C14_OnlyTheSendAborts ==
    /\ (sPc = "validate" /\ ValidationFailed') => UNCHANGED <<shutdownVars, wg, pc>>
    /\ (ValidationFailed /\ pc'["main"] # pc["main"]) =>
          /\ pc'["main"] = "input" /\ sPc' = "idle"
          /\ \A t \in {"sig", "rcv", "asm"} : pc'[t] = pc[t]
          /\ UNCHANGED <<shutdownVars, wg>>

\* C14: a send whose file fails the header validation returns a descriptive
\* error having written nothing to the connection; neither the failure nor the
\* return to the input loop calls shutdown or moves the receiver or the
\* assembler, and Start is back at its input loop, ready for the next line.
C14_ValidationErrorIsLocal == []C14_NothingEmitted /\ [][C14_OnlyTheSendAborts]_vars

\* C14 witness: a send failed the validation, the next send went through, and
\* shutdown was never called; the receiver and the assembler are running.
C14_Witness ==
    /\ Len(sDone) = 2
    /\ sDone[1] = "invalid audio format"
    /\ sDone[2] = ""
    /\ once = "idle" /\ pc["rcv"] \in {"select", "read"} /\ pc["asm"] = "select"

\* ------------------------------------- saveAudioOnly's file, then validated
\* Header fields in which the file the user names may differ from the file
\* saveAudioOnly wrote.
MaxForeign == 2

\* len(audioData) in the model: up to MaxRawLen bytes, and lengths around 2^32
\* (2^32 - 36, 2^32 - 1 and 2^32). Of the audio only the first byte is kept.
PcmLens ==
    {IntOf(n) : n \in 0..MaxRawLen} \cup {<<65500, 65535, 0>>, <<65535, 65535, 0>>, <<0, 0, 1>>}

\* The first byte of audio of length l, if it has one.
LeadsOf(l) == {r \in SeqsUpTo(ByteSamples, 1) : Len(r) = IF l = <<0, 0, 0>> THEN 0 ELSE 1}

\* saveAudioOnly has taken audioData from the buffer and is about to persist it.
WavInit ==
    /\ ClientInit
    /\ sPc = "encode"
    /\ pcmLen \in PcmLens
    /\ sRaw \in LeadsOf(pcmLen)
    /\ sChunk = 1 /\ sOff = 0 /\ sEvents = <<>> /\ sErr = FALSE
    /\ sHeader = <<>> /\ sSize = <<0, 0, 0>> /\ sRet = <<>> /\ sWrites = <<>> /\ sDone = <<>>
    /\ RetryIdle /\ LaterIdle

\* saveAudioOnly from the length test on: empty audio is an error; os.Create may
\* fail; else writeWAVHeader(file, uint32(len(audioData))) and file.Write(audioData).
WavWrite ==
    /\ sPc = "encode"
    /\ IF pcmLen = <<0, 0, 0>>
         THEN /\ sPc' = "returned" /\ sErr' = TRUE /\ sRet' = <<"empty audio data">>
              /\ UNCHANGED <<sHeader, sSize>>
         ELSE \E ok \in BOOLEAN :
                IF ok
                  THEN /\ sHeader' = writeWAVHeader(Uint32(pcmLen))
                       /\ sSize' = AddInt(pcmLen, 44)
                       /\ sPc' = "written"
                       /\ UNCHANGED <<sErr, sRet>>
                  ELSE /\ sPc' = "returned" /\ sErr' = TRUE
                       /\ sRet' = <<"create audio file", "create error">>
                       /\ UNCHANGED <<sHeader, sSize>>
    /\ UNCHANGED <<sRaw, sChunk, sOff, sEvents, sWrites, sDone, pcmLen, clientVars>>
    /\ UNCHANGED otherVars

\* The user names a file with "/audio <path>": the file written, or a file of
\* another origin whose header differs from it in up to MaxForeign fields.
WavUse ==
    /\ sPc = "written"
    /\ sHeader' \in ForeignHeaders(sHeader, MaxForeign)
    /\ sPc' = "open"
    /\ UNCHANGED <<sRaw, sChunk, sOff, sEvents, sErr, sSize, sRet, sWrites, sDone, pcmLen,
                   clientVars>>
    /\ UNCHANGED otherVars

WavNext ==
    \/ WavWrite
    \/ WavUse
    \/ SendOpen
    \/ SendValidate

WavSpec == WavInit /\ [][WavNext]_vars

\* A uint32 field of the header as a Go int.
AsInt(w) == <<w[1], w[2], 0>>

\* C15: the file saveAudioOnly writes for audio of any length is 44 bytes
\* longer than the audio and starts with RIFF, len+36, WAVE, 'fmt ', 16,
\* format 1, 1 channel, 24000 Hz, byte rate 48000, block align 2, 16 bits,
\* 'data', len.
C15_EncoderOutput ==
    sPc = "written" =>
        /\ sSize = AddInt(pcmLen, 44)
        /\ Len(sHeader) = 44
        /\ SubSeq(sHeader, 1, 4) = RIFF
        /\ AsInt(U32(sHeader, 4)) = AddInt(pcmLen, 36)
        /\ SubSeq(sHeader, 9, 12) = WAVE
        /\ SubSeq(sHeader, 13, 16) = FmtID
        /\ U32(sHeader, 16) = W32(16)
        /\ U16(sHeader, 20) = 1
        /\ U16(sHeader, 22) = 1
        /\ U32(sHeader, 24) = W32(24000)
        /\ U32(sHeader, 28) = W32(48000)
        /\ U16(sHeader, 32) = 2
        /\ U16(sHeader, 34) = 16
        /\ SubSeq(sHeader, 37, 40) = DataID
        /\ AsInt(U32(sHeader, 40)) = pcmLen

\* The header validation has been run on the file named.
Validated == sPc = "create" \/ ValidationFailed

\* The file named is the file saveAudioOnly wrote.
OwnFile == sHeader = writeWAVHeader(Uint32(pcmLen))

\* C16: the header writeWAVHeader wrote is accepted by validateWAVFormat.
C16_OwnHeaderAccepted == (Validated /\ OwnFile) => sPc = "create"

\* C16 witness: a file written for audio of two bytes was named and has passed
\* the validation.
C16_Witness == sPc = "create" /\ OwnFile /\ pcmLen = IntOf(2)

FieldBytes(b, f) == SubSeq(b, WAVHeaderLayout[f].off + 1, WAVHeaderLayout[f].off + WAVHeaderLayout[f].w)

\* The fields in which the file named differs from the file written.
DiffFields ==
    {f \in DOMAIN WAVHeaderLayout :
        FieldBytes(sHeader, f) # FieldBytes(writeWAVHeader(Uint32(pcmLen)), f)}

\* C17: a header that differs from a valid one in exactly one of the four
\* format fields is rejected, with a reason that no change of another format
\* field and no change of a marker gets.
C17_DistinctRejections ==
    \A f \in FormatFields :
        (Validated /\ DiffFields = {f}) =>
            /\ ValidationFailed
            /\ \A g \in (FormatFields \cup MarkerFields) \ {f} : \A v \in OtherValues[g] :
                  validateWAVFormat(Patch(writeWAVHeader(Uint32(pcmLen)), g, v))[1] # sRet[2]

\* C17 witness: a file that differs in the sample rate alone was rejected.
C17_Witness == ValidationFailed /\ DiffFields = {"SampleRate"}

\* --------------------------------------------- frames as text, and decoding
\* Text is a sequence of one-character strings.
B64Alphabet ==
    <<"A", "B", "C", "D", "E", "F", "G", "H", "I", "J", "K", "L", "M", "N", "O", "P",
      "Q", "R", "S", "T", "U", "V", "W", "X", "Y", "Z", "a", "b", "c", "d", "e", "f",
      "g", "h", "i", "j", "k", "l", "m", "n", "o", "p", "q", "r", "s", "t", "u", "v",
      "w", "x", "y", "z", "0", "1", "2", "3", "4", "5", "6", "7", "8", "9", "+", "/">>
Digits == <<"0", "1", "2", "3", "4", "5", "6", "7", "8", "9">>

\* Position of character c in seq (0: absent).
IndexOf(seq, c) ==
    IF \E i \in DOMAIN seq : seq[i] = c THEN CHOOSE i \in DOMAIN seq : seq[i] = c ELSE 0

\* base64.StdEncoding.EncodeToString as text.
EncodeToString(bytes) ==
    LET e == Base64Encode(bytes)
    IN [i \in 1..Len(e) |-> IF e[i] = Pad THEN "=" ELSE B64Alphabet[e[i] + 1]]

\* base64.StdEncoding.DecodeString: text whose length is no multiple of four,
\* or that holds a character outside the alphabet, or '=' anywhere but as
\* padding at its end, is an error.
DecodeString(text) ==
    LET n == Len(text)
        wellPadded ==
            \A i \in 1..n :
                text[i] = "=" => (i >= n - 1 /\ text[n] = "=")
        valid ==
            /\ n % 4 = 0
            /\ \A i \in 1..n : text[i] = "=" \/ IndexOf(B64Alphabet, text[i]) > 0
            /\ wellPadded
    IN IF valid
         THEN [err |-> FALSE,
               data |-> Base64Decode([i \in 1..n |->
                           IF text[i] = "=" THEN Pad ELSE IndexOf(B64Alphabet, text[i]) - 1])]
         ELSE [err |-> TRUE, data |-> <<>>]

HasPrefix(s, p) == Len(s) >= Len(p) /\ SubSeq(s, 1, Len(p)) = p
HasSuffix(s, p) == Len(s) >= Len(p) /\ SubSeq(s, Len(s) - Len(p) + 1, Len(s)) = p
TrimPrefix(s, p) == IF HasPrefix(s, p) THEN SubSeq(s, Len(p) + 1, Len(s)) ELSE s
TrimSuffix(s, p) == IF HasSuffix(s, p) THEN SubSeq(s, 1, Len(s) - Len(p)) ELSE s

\* "[trimmed: " and " bytes]"
TrimmedPrefix == <<"[", "t", "r", "i", "m", "m", "e", "d", ":", " ">>
TrimmedSuffix == <<" ", "b", "y", "t", "e", "s", "]">>

RECURSIVE DigitsValue(_)
DigitsValue(s) ==
    IF s = <<>> THEN 0
    ELSE 10 * DigitsValue(SubSeq(s, 1, Len(s) - 1)) + (IndexOf(Digits, s[Len(s)]) - 1)

\* strconv.Atoi: an optional sign, then one or more decimal digits.
Atoi(s) ==
    LET signed == s # <<>> /\ s[1] \in {"+", "-"}
        digits == IF signed THEN Tail(s) ELSE s
        ok == digits # <<>> /\ \A i \in DOMAIN digits : IndexOf(Digits, digits[i]) > 0
    IN IF ~ok THEN [ok |-> FALSE, val |-> 0]
       ELSE [ok |-> TRUE,
             val |-> IF s[1] = "-" THEN 0 - DigitsValue(digits) ELSE DigitsValue(digits)]

\* make([]byte, size) for size >= 0: size zero bytes.
MakeBytes(size) == [i \in 1..size |-> 0]

\* Mutant of DecodeDelta: every delta is taken for base64.
DecodeDeltaNoSentinel(delta) ==
    LET d == DecodeString(delta)
    IN IF d.err THEN [res |-> "error", err |-> "decode audio data", data |-> <<>>]
       ELSE [res |-> "ok", err |-> "", data |-> d.data]

\* handleAudioResponse, from the delta to processedData: the trimmed sentinel
\* gives `size` zero bytes (make panics on a negative size), anything else is
\* decoded as base64; a size that is no number and text that is no base64 are
\* errors.
DecodeDelta(delta) ==
    IF HasPrefix(delta, TrimmedPrefix) /\ HasSuffix(delta, TrimmedSuffix)
      THEN LET size == Atoi(TrimSuffix(TrimPrefix(delta, TrimmedPrefix), TrimmedSuffix))
           IN IF ~size.ok THEN [res |-> "error", err |-> "parse audio size", data |-> <<>>]
              ELSE IF size.val < 0 THEN [res |-> "panic", err |-> "", data |-> <<>>]
              ELSE [res |-> "ok", err |-> "", data |-> MakeBytes(size.val)]
      ELSE LET d == DecodeString(delta)
           IN IF d.err THEN [res |-> "error", err |-> "decode audio data", data |-> <<>>]
              ELSE [res |-> "ok", err |-> "", data |-> d.data]


\* ----------------------------------------- the dispatcher on frames as text
\* Sizes the server announces in "[trimmed: N bytes]".
TrimmedSizes == {0, 2, 10}

\* The audio bytes of a well-formed response.audio.delta frame.
AudioPayload == <<77, 255>>

RECURSIVE Itoa(_)
Itoa(n) == IF n < 10 THEN <<Digits[n + 1]>> ELSE Itoa(n \div 10) \o <<Digits[(n % 10) + 1]>>

\* A frame as ReadMessage delivers it: whether it is JSON at all, its "type",
\* "response_id", "item_id" and "delta" (text, unless the field holds no JSON
\* string), and, for the record only, what the server meant it to be and the
\* bytes it stands for.
Frame(wellFormed, type, sk, deltaIsString, delta, kind, bytes) ==
    [wellFormed |-> wellFormed, type |-> type, rid |-> sk[1], iid |-> sk[2],
     deltaIsString |-> deltaIsString, delta |-> delta, data |-> <<>>,
     meant |-> [kind |-> kind, bytes |-> bytes]]

FirstKey == CHOOSE sk \in StreamKeys : sk[1] = "r1"

\* The frames the server sends in the model.
NetFrames ==
    {Frame(TRUE, "response.audio.delta", sk, TRUE, EncodeToString(AudioPayload),
           "audio", AudioPayload) : sk \in StreamKeys}
    \cup {Frame(TRUE, "response.audio.delta", FirstKey, TRUE,
                TrimmedPrefix \o Itoa(n) \o TrimmedSuffix,
                "trimmed", [i \in 1..n |-> 0]) : n \in TrimmedSizes}
    \cup {Frame(TRUE, "response.audio.delta", FirstKey, TRUE, text, "undecodable", <<>>) :
            text \in {<<"T", "f", "8">>, <<"T", "f", "8", "!">>,
                      TrimmedPrefix \o <<"x">> \o TrimmedSuffix,
                      TrimmedPrefix \o <<"-", "1">> \o TrimmedSuffix}}
    \cup {Frame(TRUE, "response.audio.delta", FirstKey, FALSE, <<>>, "undecodable", <<>>),
          Frame(FALSE, "", FirstKey, FALSE, <<>>, "undecodable", <<>>),
          Frame(TRUE, "foo.bar", FirstKey, FALSE, <<>>, "unknown", <<>>)}
    \cup {Frame(TRUE, "response.audio.done", sk, FALSE, <<>>, "done", <<>>) : sk \in StreamKeys}

\* c.Conn.ReadMessage() returns a frame.
RcvReadFrame ==
    /\ Alive /\ pc["rcv"] = "read" /\ ~IsClosed("Conn")
    /\ netSent < MaxFrames
    /\ rcvMsg' \in NetFrames
    /\ netSent' = netSent + 1
    /\ Goto("rcv", "dispatch")
    /\ UNCHANGED <<AudioChannel, AudioBuffer, audioFiles, rcvData, asmChunk, saved,
                   histVars, shutdownVars, wg, panicked, sendVars>>
    /\ UNCHANGED restVars

\* Mutant of DispatchOf: a type the switch does not know is handled by the
\* done case.
DispatchOfUnknownDrains(f) ==
    IF ~f.wellFormed THEN [to |-> "continue", data |-> <<>>]
    ELSE IF f.type = "response.audio.delta"
      THEN IF ~f.deltaIsString THEN [to |-> "continue", data |-> <<>>]
           ELSE LET d == DecodeDelta(f.delta)
                IN CASE d.res = "ok" -> [to |-> "handoff", data |-> d.data]
                     [] d.res = "error" -> [to |-> "continue", data |-> <<>>]
                     [] OTHER -> [to |-> "panic", data |-> <<>>]
    ELSE [to |-> "drain", data |-> <<>>]

\* What receiveRoutine does with the frame it read: "continue" (the loop goes
\* on), "handoff" (a chunk was built from the delta), "drain" (the done case),
\* or "panic".
DispatchOf(f) ==
    IF ~f.wellFormed THEN [to |-> "continue", data |-> <<>>]
    ELSE IF f.type = "response.audio.delta"
      THEN IF ~f.deltaIsString THEN [to |-> "continue", data |-> <<>>]
           ELSE LET d == DecodeDelta(f.delta)
                IN CASE d.res = "ok" -> [to |-> "handoff", data |-> d.data]
                     [] d.res = "error" -> [to |-> "continue", data |-> <<>>]
                     [] OTHER -> [to |-> "panic", data |-> <<>>]
    ELSE IF f.type = "response.audio.done" THEN [to |-> "drain", data |-> <<>>]
    ELSE [to |-> "continue", data |-> <<>>]

\* receiveRoutine from the envelope's json.Unmarshal through the type switch;
\* for a delta, handleAudioResponse up to its select.
RcvDispatch ==
    /\ Alive /\ pc["rcv"] = "dispatch"
    /\ LET f == rcvMsg
           key == audioKey(f.rid, f.iid)
           d == DispatchOf(f)
       IN /\ netLog' = Append(netLog, f.meant.kind)
          /\ recvd' = IF f.meant.kind \in {"audio", "trimmed"}
                        THEN [recvd EXCEPT ![key] = @ \o f.meant.bytes]
                      ELSE IF f.meant.kind = "done" THEN [recvd EXCEPT ![key] = <<>>]
                      ELSE recvd
          /\ lastDone' = IF d.to = "drain"
                           THEN [state |-> "pending", key |-> key, expected |-> recvd[key],
                                 actual |-> <<>>, err |-> FALSE, fresh |-> FALSE]
                           ELSE lastDone
          /\ panicked' = (d.to = "panic")
          /\ rcvMsg' = CASE d.to = "handoff" ->
                                [type |-> f.type, rid |-> f.rid, iid |-> f.iid, data |-> d.data]
                         [] d.to = "drain" ->
                                [type |-> f.type, rid |-> f.rid, iid |-> f.iid, data |-> <<>>]
                         [] d.to = "panic" -> rcvMsg
                         [] OTHER -> NoMsg
          /\ Goto("rcv", CASE d.to = "handoff" -> "handoff"
                           [] d.to = "drain" -> "save_lookup"
                           [] d.to = "panic" -> "dispatch"
                           [] OTHER -> "select")
    /\ UNCHANGED <<AudioChannel, AudioBuffer, audioFiles, rcvData, asmChunk, saved,
                   appendedSince, shutdownVars, wg, netSent, sendVars>>
    /\ UNCHANGED restVars

\* The client on a connection that delivers frames, while the user sends no
\* audio and no signal arrives: shutdown is called by Start when the session
\* update cannot be written or the user quits, and by the receiver on an
\* unexpected close.
DispatchNext ==
    \/ StartWriteSession
    \/ StartSpawnReceiver
    \/ UserQuit
    \/ \E p \in Callers : ShutdownEnter(p)
    \/ \E p \in Callers : ShutdownSelect(p)
    \/ \E p \in Callers : ShutdownSkip(p)
    \/ GoCloseFrame
    \/ GoCloseConn
    \/ GoCloseLogger
    \/ GoWait
    \/ \E ch \in {"MessageChannel", "DisplayChannel", "AudioChannel"} : GoCloseChannel(ch)
    \/ GoComplete
    \/ RcvSelect
    \/ RcvReadError
    \/ RcvReadClosed
    \/ RcvReadFrame
    \/ RcvDispatch
    \/ RcvHandoffSend
    \/ RcvHandoffAbort
    \/ RcvSaveLookup
    \/ RcvSaveWrite
    \/ RcvSaveDelete
    \/ AsmRecv
    \/ AsmHandle
    \/ AsmReturn

DispatchSpec == Init /\ [][DispatchNext]_vars


\* Neither task is in the middle of a frame or a chunk, and nothing is queued.
Quiescent ==
    /\ pc["rcv"] \in {"select", "read"}
    /\ pc["asm"] = "select"
    /\ AudioChannel = <<>>

\* C18: a response.audio.delta frame whose delta is "[trimmed: N bytes]", N >= 0,
\* adds exactly N zero bytes to the buffer of its stream key and nothing to any
\* other buffer: before shutdown and before a key's first done frame, whenever
\* every frame received has been worked off, each buffer is the concatenation,
\* in arrival order, of the bytes its key's frames stand for (N zero bytes for
\* a trimmed frame, the decoded bytes otherwise).
C18_TrimmedGivesZeros ==
    \A k \in AudioKeys :
        (Quiescent /\ ~DoneClosed /\ ~panicked /\ k \notin DOMAIN audioFiles)
            => BufOf(AudioBuffer, k) = recvd[k]

\* C18 witness: after an audio frame, a "[trimmed: 10 bytes]" frame and a
\* "[trimmed: 0 bytes]" frame for one key, its buffer holds the audio and ten
\* zero bytes; the other key has no buffer.
C18_Witness ==
    /\ Quiescent /\ ~DoneClosed
    /\ netLog = <<"audio", "trimmed", "trimmed">>
    /\ BufOf(AudioBuffer, audioKey("r1", "i1")) = AudioPayload \o [i \in 1..10 |-> 0]
    /\ DOMAIN AudioBuffer = {audioKey("r1", "i1")}

\* The receiver takes a step: it moves on, or it brings the process down.
RcvSteps == pc'["rcv"] # pc["rcv"] \/ (panicked' /\ ~panicked)

\* C19: the dispatch of a frame whose type is none of response.audio.delta,
\* response.audio.done and response.done changes neither the buffers, the queue
\* nor the remembered paths, calls no shutdown, and leaves the receiver at the
\* head of its loop, ready for the next frame.
C19_UnknownTypeIgnored ==
    [][(/\ pc["rcv"] = "dispatch"
        /\ rcvMsg.wellFormed
        /\ rcvMsg.type \notin {"response.audio.delta", "response.audio.done", "response.done"}
        /\ RcvSteps)
       => (/\ pc'["rcv"] = "select"
           /\ ~panicked'
           /\ UNCHANGED <<AudioBuffer, AudioChannel, audioFiles, saved, shutdownVars, wg>>)]_vars

\* C19 witness: an audio frame that followed a "foo.bar" frame has reached its
\* buffer.
C19_Witness ==
    /\ Quiescent
    /\ Len(netLog) >= 2 /\ netLog[1] = "unknown" /\ netLog[2] = "audio"
    /\ \E k \in DOMAIN AudioBuffer : AudioBuffer[k] = AudioPayload

\* C20: the dispatch of a frame that cannot be decoded (no JSON, a delta that
\* is no base64, a trimmed sentinel whose size is no number or is negative)
\* drops the frame: the buffers and the queue are unchanged, no shutdown is
\* called, the process goes on, and the receiver is at the head of its loop.
C20_UndecodableDropped ==
    [][(/\ pc["rcv"] = "dispatch"
        /\ rcvMsg.meant.kind = "undecodable"
        /\ RcvSteps)
       => (/\ pc'["rcv"] = "select"
           /\ ~panicked'
           /\ UNCHANGED <<AudioBuffer, AudioChannel, audioFiles, saved, shutdownVars, wg>>)]_vars


\* ------------------------------- the receiver's read errors, with the metrics
\* The errors ReadMessage can return: on the connection shutdown has closed, an
\* error that is neither a timeout nor a close error ("use of closed network
\* connection").
ErrorsOn(closed) == IF closed THEN {"other_error"} ELSE ReadErrors

\* Mutant of CountsAsError: every failed read is an error.
CountsEveryReadError(e) == TRUE

\* The read errors receiveRoutine logs and records: those it has not already
\* left the iteration for (a clean close returns, a timeout continues).
CountsAsError(e) == e \notin {"normal_close", "timeout"}

\* c.Metrics.RecordError(): atomic.AddInt64(&m.Errors, 1). The model follows
\* the counter up to MaxErrors.
RecordError(n) == IF n < MaxErrors THEN n + 1 ELSE n

\* receiveRoutine's `if err != nil` block, with what it records: the error is
\* remembered until the next iteration, Metrics.Errors is counted.
RcvReadFails ==
    /\ Alive /\ pc["rcv"] = "read"
    /\ \E e \in ErrorsOn(IsClosed("Conn")) :
          /\ rcvErr' = e
          /\ Errors' = IF CountsAsError(e) THEN RecordError(Errors) ELSE Errors
          /\ Goto("rcv", AfterReadError(e))
          /\ wg' = IF AfterReadError(e) = "done" THEN wg - 1 ELSE wg
    /\ UNCHANGED <<audioVars, histVars, rcvRest, transcripts, otherVars>>

\* The client on a connection whose reads fail or deliver frames of no
\* interest, with the user and the interrupt.
ReadNext ==
    \/ StartWriteSession
    \/ StartSpawnReceiver
    \/ UserQuit
    \/ Interrupt
    \/ \E p \in Callers : ShutdownEnter(p)
    \/ \E p \in Callers : ShutdownSelect(p)
    \/ \E p \in Callers : ShutdownSkip(p)
    \/ GoCloseFrame
    \/ GoCloseConn
    \/ GoCloseLogger
    \/ GoWait
    \/ \E ch \in {"MessageChannel", "DisplayChannel", "AudioChannel"} : GoCloseChannel(ch)
    \/ GoComplete
    \/ RcvSelect
    \/ RcvReadFails
    \/ RcvReadOther
    \/ AsmReturn

ReadSpec == Init /\ [][ReadNext]_vars

\* The receiver handles the error of a read.
ReadFailed(e) == pc["rcv"] = "read" /\ pc'["rcv"] # "read" /\ rcvErr' = e

\* C21: a read that fails with a timeout does not end the receiver's loop, calls
\* no shutdown and is not counted in Metrics.Errors: the receiver is back at the
\* head of its loop, and when the cancellation signal is not closed its next
\* step is to read again.
C21_TimeoutRereads ==
    [][/\ ReadFailed("timeout") =>
            /\ pc'["rcv"] = "select"
            /\ Errors' = Errors
            /\ UNCHANGED <<shutdownVars, wg>>
       /\ (pc["rcv"] = "select" /\ rcvErr = "timeout" /\ ~DoneClosed /\ pc'["rcv"] # "select")
            => pc'["rcv"] = "read"]_vars

\* C21 witness: a read after a frame has timed out; nothing is counted, nobody
\* has called shutdown and the receiver is at the head of its loop.
C21_Witness ==
    /\ pc["rcv"] = "select" /\ rcvErr = "timeout"
    /\ netSent = 1 /\ Errors = 0 /\ once = "idle" /\ wg = 2

\* C22: a read that fails with a clean close (normal closure, going away) ends
\* the receiver's loop for good (it reports completion), is not counted in
\* Metrics.Errors and calls no shutdown.
C22_CleanCloseReturns ==
    [][/\ ReadFailed("normal_close") =>
            /\ pc'["rcv"] = "done"
            /\ wg' = wg - 1
            /\ Errors' = Errors
            /\ UNCHANGED shutdownVars
       /\ pc["rcv"] = "done" => pc'["rcv"] = "done"]_vars

\* C22 witness: the receiver has returned on a clean close after an earlier
\* error was counted; nobody has called shutdown.
C22_Witness ==
    /\ pc["rcv"] = "done" /\ rcvErr = "normal_close"
    /\ Errors = 1 /\ once = "idle" /\ wg = 1

\* C23: on every read error that is neither a timeout nor a clean close the
\* receiver calls shutdown (and returns after it, never reading again).
C23_OtherErrorsFatal ==
    [][\A e \in ReadErrors \ {"timeout", "normal_close"} :
          ReadFailed(e) => pc'["rcv"] = "sd_call"]_vars


\* ------------------------------------------- sendWithRetry (the text client)
\* The values up to which the model follows the text client's counters.
MaxSent == 2
MaxCounted == 4

\* The errors c.conn.WriteJSON returns.
WriteErrors == {"write timeout", "broken pipe"}

\* fmt.Sprintf("%v", lastErr)
ErrText(e) == IF e = "" THEN "<nil>" ELSE e

\* Mutant of RetryGoesOn: one attempt more.
RetryGoesOnOnceMore(i) == i <= MaxRetries

\* The loop condition of sendWithRetry: i < c.config.MaxRetries.
RetryGoesOn(i) == i < MaxRetries

\* The head of sendWithRetry's loop: the next attempt, or the return of the
\* error that names the last cause.
RetryLoop(i, cause) ==
    IF RetryGoesOn(i)
      THEN rPc' = "attempt" /\ rRet' = <<>>
      ELSE rPc' = "returned" /\ rRet' = <<"failed after retries", ErrText(cause)>>

\* A task of the text client calls sendWithRetry(msg).
RetryCall ==
    /\ rPc \in {"idle", "returned"}
    /\ messagesSent < MaxSent /\ errors < MaxCounted
    /\ rI' = 0
    /\ lastErr' = ""
    /\ RetryLoop(0, "")
    /\ rLog' = <<>>
    /\ rAt' = [sent |-> messagesSent, errors |-> errors]
    /\ UNCHANGED <<messagesSent, errors, clientVars, sendVars, laterVars>>

\* One iteration: SetWriteDeadline, WriteJSON. An error is remembered and
\* recorded and, after the sleep, the loop goes on; a success is counted and
\* returns nil.
RetryAttempt ==
    /\ rPc = "attempt"
    /\ \E e \in WriteErrors \cup {""} :
          /\ rLog' = Append(rLog, e)
          /\ IF e = ""
               THEN /\ messagesSent' = messagesSent + 1
                    /\ rPc' = "returned"
                    /\ rRet' = <<>>
                    /\ UNCHANGED <<rI, lastErr, errors>>
               ELSE /\ lastErr' = e
                    /\ errors' = errors + 1
                    /\ rI' = rI + 1
                    /\ RetryLoop(rI + 1, e)
                    /\ UNCHANGED messagesSent
    /\ UNCHANGED <<rAt, clientVars, sendVars, laterVars>>

RetryNext == RetryCall \/ RetryAttempt

RetrySpec == Init /\ [][RetryNext]_vars

\* The writes of the call that failed.
Failures(log) == {i \in DOMAIN log : log[i] # ""}

\* C24: a call of sendWithRetry makes at most MaxRetries writes and none after
\* the first that succeeds; it returns nil exactly if a write succeeded, and
\* then the sent counter has grown by one; it returns an error exactly if all
\* MaxRetries writes failed, and then the error names the last failure, the
\* sent counter is unchanged and the error counter has grown by MaxRetries;
\* in each case the error counter has grown by the number of failed writes.
C24_SendWithRetry ==
    /\ Len(rLog) <= MaxRetries
    /\ \A i \in DOMAIN rLog : i < Len(rLog) => rLog[i] # ""
    /\ rPc = "returned" =>
          /\ errors = rAt.errors + Cardinality(Failures(rLog))
          /\ rRet = <<>> <=> (rLog # <<>> /\ rLog[Len(rLog)] = "")
          /\ rRet = <<>> => messagesSent = rAt.sent + 1
          /\ rRet # <<>> <=> (Len(rLog) = MaxRetries /\ Failures(rLog) = DOMAIN rLog)
          /\ rRet # <<>> =>
                /\ rRet[2] = rLog[MaxRetries]
                /\ messagesSent = rAt.sent
                /\ errors = rAt.errors + MaxRetries

\* C24 witnesses: a call that succeeded at its third write after an earlier
\* call gave up with the cause of its last write.
C24_Witness ==
    /\ rPc = "returned" /\ rRet = <<>>
    /\ rLog = <<"broken pipe", "write timeout", "">>
    /\ messagesSent = 1 /\ errors = 5


\* Task p starts a call of shutdown.
CallsShutdown(p) == pc[p] # "sd_call" /\ pc'[p] = "sd_call"

\* The receiver meets a decode error, a buffer-state error or a persistence
\* error: a frame that cannot be decoded, a drain of an absent or empty key, a
\* failed write of the artifact.
ContainedError ==
    \/ pc["rcv"] = "dispatch" /\ rcvMsg.meant.kind = "undecodable"
    \/ pc["rcv"] = "save_lookup"
         /\ SaveLookupFails(AudioBuffer, audioKey(rcvMsg.rid, rcvMsg.iid))
    \/ pc["rcv"] = "save_write" /\ pc'["rcv"] = "select"

\* C25: shutdown is called only by Start when the session update cannot be
\* written (a transport error) or the user exits, by the interrupt handler, and
\* by the receiver on a read error; a decode error, a buffer-state error or a
\* persistence error in the receiver calls no shutdown and leaves the receiver
\* at the head of its loop with the process running, and a validation error
\* of an outbound file leaves the shutdown state and every task as they were.
C25_OnlyFatalTriggers ==
    [][/\ \A p \in Callers :
            CallsShutdown(p) =>
                \/ p = "main" /\ pc[p] \in {"start", "input"}
                \/ p = "sig" /\ pc[p] = "wait"
                \/ p = "rcv" /\ pc[p] = "read"
       /\ (ContainedError /\ RcvSteps) =>
            /\ pc'["rcv"] = "select"
            /\ ~panicked'
            /\ UNCHANGED <<shutdownVars, wg>>
       /\ (sPc = "validate" /\ ValidationFailed') =>
            UNCHANGED <<shutdownVars, wg, pc, panicked>>]_vars


\* C26: when the write of a drained stream's artifact fails (file create,
\* header write or data write), the stream key has no entry in the
\* accumulation map once saveAudioOnly has returned.
C26_FailedSaveClearsBuffer ==
    [][(pc["rcv"] = "save_write" /\ pc'["rcv"] = "select")
          => audioKey(rcvMsg.rid, rcvMsg.iid) \notin DOMAIN AudioBuffer']_vars


\* C27: once the response.audio.done frame of key K has been processed and its
\* audio persisted, the accumulation map has no entry for K for as long as no
\* response.audio.delta frame for K has arrived after that done frame.
C27_NoEntryAfterDrain ==
    (/\ lastDone.state = "finished" /\ ~lastDone.err
     /\ recvd[lastDone.key] = <<>>)
        => lastDone.key \notin DOMAIN AudioBuffer


\* ----------------------------------------- response.done and the transcripts
\* (mainaudio.go:259-283, saveTranscript 820-852, audiotypes/types.go:40-64)
MaxOutputs == 2

\* The content parts an output item of a response.done frame can carry: audio
\* with a transcript, audio without one, and text.
AudioPart(transcript) == [type |-> "audio", transcript |-> transcript]
TextPart(text) == [type |-> "text", transcript |-> text]

\* The Content arrays of the output items.
Contents ==
    { <<>>,
      <<AudioPart("hi")>>,
      <<TextPart("hi")>>,
      <<AudioPart(""), AudioPart("hi")>>,
      <<AudioPart("hi"), AudioPart("ho")>> }

\* The output items of a response.done frame: an ID and its content parts.
OutputItems == { [id |-> i, content |-> c] : i \in {"i1", "i2"}, c \in Contents }

\* The response.done frames the server can send; one that does not decode into
\* CompleteResponse is wellFormed = FALSE.
ResponseDoneFrames ==
    { [type |-> "response.done", wellFormed |-> TRUE, rid |-> r, output |-> o] :
          r \in {"r1", "r2"}, o \in SeqsUpTo(OutputItems, MaxOutputs) }
    \cup { [type |-> "response.done", wellFormed |-> FALSE, rid |-> "", output |-> <<>>] }

\* saveTranscript's textPath: the audio path with ".wav" replaced by ".txt".
\* Audio paths are named by the number of the done frame that allocated them.
WavPath(n) == <<"audio_", n, ".wav">>
TextPath(filepath) == TrimSuffix(filepath, <<".wav">>) \o <<".txt">>

\* saveTranscript: one call of os.WriteFile; ok is whether it succeeded.
saveTranscript(log, audioPath, transcript, ok) ==
    Append(log, [path |-> TextPath(WavPath(audioPath)), audioFile |-> audioPath,
                 transcript |-> transcript, ok |-> ok])

\* Mutant of AfterTranscript: the mapping is kept.
AfterTranscriptKeeps(files, key) == files

\* After saveTranscript, whatever it returned: delete(audioFiles, audioKey).
AfterTranscript(files, key) == MapDelete(files, key)

\* The content parts of a frame in the order the two loops visit them, each with
\* the ID of its output item.
RECURSIVE ContentsInOrder(_)
ContentsInOrder(output) ==
    IF output = <<>> THEN <<>>
    ELSE [k \in 1..Len(Head(output).content) |->
             [id |-> Head(output).id, type |-> Head(output).content[k].type,
              transcript |-> Head(output).content[k].transcript]]
         \o ContentsInOrder(Tail(output))

\* The condition of line 269.
HasTranscript(part) == part.type = "audio" /\ part.transcript # ""

\* The two loops of the response.done case over the parts from position k on;
\* oks[n] is whether the n-th write of this frame succeeds.
RECURSIVE ProcessResponse(_, _, _, _, _, _, _)
ProcessResponse(files, log, rid, parts, k, oks, n) ==
    IF k > Len(parts) THEN [files |-> files, log |-> log]
    ELSE LET key == audioKey(rid, parts[k].id) IN
         IF HasTranscript(parts[k]) /\ key \in DOMAIN files
           THEN ProcessResponse(AfterTranscript(files, key),
                                saveTranscript(log, files[key], parts[k].transcript, oks[n]),
                                rid, parts, k + 1, oks, n + 1)
           ELSE ProcessResponse(files, log, rid, parts, k + 1, oks, n)

\* How many writes the frame's parts lead to.
WritesOf(files, rid, parts) ==
    Len(ProcessResponse(files, <<>>, rid, parts, 1, [k \in DOMAIN parts |-> TRUE], 1).log)

\* A response.done frame is read.
RcvReadResponseDone ==
    /\ Alive /\ pc["rcv"] = "read" /\ ~IsClosed("Conn")
    /\ netSent < MaxFrames
    /\ \E f \in ResponseDoneFrames : rcvMsg' = f
    /\ netSent' = netSent + 1
    /\ Goto("rcv", "resp_done")
    /\ UNCHANGED <<AudioChannel, AudioBuffer, audioFiles, rcvData, asmChunk, saved,
                   histVars, shutdownVars, wg, panicked, sendVars>>
    /\ UNCHANGED restVars

\* The response.done case: a frame that does not decode is logged and skipped;
\* otherwise every content part is visited.
RcvResponseDone ==
    /\ Alive /\ pc["rcv"] = "resp_done"
    /\ IF ~rcvMsg.wellFormed
         THEN UNCHANGED <<audioFiles, transcripts>>
         ELSE LET parts == ContentsInOrder(rcvMsg.output) IN
              \E oks \in [1..WritesOf(audioFiles, rcvMsg.rid, parts) -> BOOLEAN] :
                 LET r == ProcessResponse(audioFiles, transcripts, rcvMsg.rid, parts, 1, oks, 1) IN
                   /\ audioFiles' = r.files
                   /\ transcripts' = r.log
    /\ rcvMsg' = NoMsg
    /\ Goto("rcv", "select")
    /\ UNCHANGED <<AudioChannel, AudioBuffer, rcvData, asmChunk, saved, histVars,
                   wg, rcvRest>>
    /\ UNCHANGED <<readVars, otherVars>>

TranscriptNext ==
    \/ StartWriteSession
    \/ StartSpawnReceiver
    \/ RcvSelect
    \/ RcvReadDone
    \/ RcvSaveLookup
    \/ RcvReadResponseDone
    \/ RcvResponseDone

TranscriptSpec == Init /\ [][TranscriptNext]_vars

\* The stream keys of the parts of frame f that carry a non-empty transcript.
TranscriptKeys(f) ==
    IF ~f.wellFormed THEN {}
    ELSE LET parts == ContentsInOrder(f.output) IN
         { audioKey(f.rid, parts[k].id) : k \in { j \in DOMAIN parts : HasTranscript(parts[j]) } }

\* The writes saveTranscript has issued in this step.
NewTranscripts == SubSeq(transcripts', Len(transcripts) + 1, Len(transcripts'))

Running(p) == pc[p] \notin {"unborn", "done"}

\* C29: once Start has spawned its tasks, and until the cancellation signal is
\* closed, the keep-alive task is running and is counted in WG together with
\* the receiver and the assembler.
C29_KeepAliveRuns ==
    (pc["main"] = "input" /\ ~DoneClosed /\ ~panicked)
       => /\ Running("ka")
          /\ wg = Cardinality({ p \in {"rcv", "asm", "ka"} : Running(p) })


\* ------------------------------------------------------- Closed is terminal
\* This step issues a WriteJSON call of sendAudioMessage.
IssuesWrite == Len(sWrites') = Len(sWrites) + 1

\* This step is a ReadMessage call of the receiver returning.
IssuesRead == pc["rcv"] = "read" /\ pc'["rcv"] # "read"

\* C30: once shutdown has closed the connection, no task sends on it (no
\* conversation.item.create, append, commit or response.create) and the
\* receiver reads from it no more.
C30_ClosedIsTerminal ==
    [][(IssuesWrite \/ IssuesRead) => ~IsClosed("Conn")]_vars


\* ------------------------------------------ the writers of the connection
\* Which tasks call WriteJSON, in the audio client (mainaudio.go) and in the
\* text client (maingo.go). A write is two steps, the call and its return, so
\* that two tasks can be seen inside a write. The ping task and the close
\* frame of shutdown use WriteControl and are no data writers.
MaxLines == 2
MessageChannelCap == 1
Clients == {"audio", "text"}

\* Mutant of StartSteps: the text client's tasks are spawned before the session
\* update is written.
StartStepsSpawnFirst(c) ==
    IF c = "audio" THEN <<"update", "spawn", "input">> ELSE <<"spawn", "update", "wait">>

\* What Start does, in order: audio client (mainaudio.go:769-818) and text
\* client (maingo.go:505-532).
StartSteps(c) ==
    IF c = "audio" THEN <<"update", "spawn", "input">> ELSE <<"update", "spawn", "wait">>

\* The tasks Start spawns.
SpawnedByStart(c) == IF c = "audio" THEN {"receive"} ELSE {"input", "send", "receive"}

\* The number of WriteJSON calls one message of the user takes: two for a text
\* (item, response.create); for an audio file of one chunk four (item, append,
\* commit, response.create).
EventCounts(c) == IF c = "audio" THEN {2, 4} ELSE {2}

\* Writes of the text client go through sendWithRetry; those of the audio
\* client are tried once.
Attempts(c) == IF c = "audio" THEN 1 ELSE MaxRetries

\* The state NewChatClient leaves, in either client.
WriterStart ==
    /\ client \in Clients
    /\ wPc = [t \in WTasks |-> IF t = "start" THEN "step"
                               ELSE IF t = "assembler" /\ client = "audio" THEN "loop"
                               ELSE "unborn"]
    /\ wStep = 1
    /\ wI = [t \in WTasks |-> 0]
    /\ wLeft = [t \in WTasks |-> 0]
    /\ wQueue = 0
    /\ wLines = 0
    /\ writers = {}
    /\ wDone = FALSE

WRunning == wPc["start"] \notin {"unborn", "exited"}

\* shutdown, as far as the writers see it: Done is closed and the connection
\* with it.
WShutdown == wDone' = TRUE

\* The process ends: Start has returned to main, or log.Fatal was called.
WExit ==
    /\ wPc' = [t \in WTasks |-> IF wPc[t] = "unborn" THEN "unborn" ELSE "exited"]
    /\ writers' = {}

\* Start takes its next step.
WStartStep ==
    /\ WRunning /\ wPc["start"] = "step"
    /\ LET step == StartSteps(client)[wStep] IN
         CASE step = "update" ->
                /\ wPc' = [wPc EXCEPT !["start"] = "send_event"]
                /\ wLeft' = [wLeft EXCEPT !["start"] = 1]
                /\ wI' = [wI EXCEPT !["start"] = 0]
                /\ UNCHANGED wStep
           [] step = "spawn" ->
                /\ wPc' = [t \in WTasks |-> IF t \in SpawnedByStart(client) THEN "loop" ELSE wPc[t]]
                /\ wStep' = wStep + 1
                /\ UNCHANGED <<wLeft, wI>>
           [] OTHER ->
                /\ wPc' = [wPc EXCEPT !["start"] = step]
                /\ UNCHANGED <<wStep, wLeft, wI>>
    /\ UNCHANGED <<client, wQueue, wLines, writers, wDone>>
    /\ UNCHANGED nonWriterVars

\* Task t calls c.Conn.WriteJSON.
WBeginWrite(t) ==
    /\ WRunning /\ wPc[t] = "send_event"
    /\ wPc' = [wPc EXCEPT ![t] = "in_write"]
    /\ writers' = writers \cup {t}
    /\ UNCHANGED <<client, wStep, wI, wLeft, wQueue, wLines, wDone>>
    /\ UNCHANGED nonWriterVars

\* What task t does when all events of its message are written.
AfterMessage(t) ==
    IF t = "send" THEN "loop"
    ELSE IF StartSteps(client)[wStep] = "update" THEN "step" ELSE "input"

\* Task t's WriteJSON returns. After the last failed attempt Start gives up the
\* session update (audio: return through shutdown; text: log.Fatal), the input
\* loop of the audio client logs the error and reads on, and sendRoutine calls
\* shutdown and returns.
WEndWrite(t) ==
    /\ WRunning /\ wPc[t] = "in_write"
    /\ \E ok \in BOOLEAN :
         /\ ok => ~wDone
         /\ IF ok
              THEN /\ writers' = writers \ {t}
                   /\ wLeft' = [wLeft EXCEPT ![t] = @ - 1]
                   /\ wI' = [wI EXCEPT ![t] = 0]
                   /\ wPc' = [wPc EXCEPT ![t] = IF wLeft[t] > 1 THEN "send_event"
                                                 ELSE AfterMessage(t)]
                   /\ wStep' = IF t = "start" /\ StartSteps(client)[wStep] = "update"
                                 THEN wStep + 1 ELSE wStep
                   /\ UNCHANGED wDone
              ELSE IF wI[t] + 1 < Attempts(client)
                THEN /\ writers' = writers \ {t}
                     /\ wI' = [wI EXCEPT ![t] = @ + 1]
                     /\ wPc' = [wPc EXCEPT ![t] = "send_event"]
                     /\ UNCHANGED <<wLeft, wStep, wDone>>
                ELSE IF t = "start" /\ StartSteps(client)[wStep] = "update"
                  THEN WExit /\ WShutdown /\ UNCHANGED <<wLeft, wStep, wI>>
                  ELSE /\ writers' = writers \ {t}
                       /\ wPc' = [wPc EXCEPT ![t] = IF t = "send" THEN "done" ELSE "input"]
                       /\ wDone' = (wDone \/ t = "send")
                       /\ wLeft' = [wLeft EXCEPT ![t] = 0]
                       /\ wI' = [wI EXCEPT ![t] = 0]
                       /\ UNCHANGED wStep
    /\ UNCHANGED <<client, wQueue, wLines>>
    /\ UNCHANGED nonWriterVars

\* The audio client's input loop reads a line and sends it, or reads .quit and
\* returns through shutdown.
WUserLine ==
    /\ WRunning /\ wPc["start"] = "input"
    /\ \/ /\ wLines < MaxLines
          /\ wLines' = wLines + 1
          /\ \E n \in EventCounts(client) : wLeft' = [wLeft EXCEPT !["start"] = n]
          /\ wI' = [wI EXCEPT !["start"] = 0]
          /\ wPc' = [wPc EXCEPT !["start"] = "send_event"]
          /\ UNCHANGED <<writers, wDone>>
       \/ WExit /\ WShutdown /\ UNCHANGED <<wLines, wLeft, wI>>
    /\ UNCHANGED <<client, wStep, wQueue>>
    /\ UNCHANGED nonWriterVars

\* The text client's inputRoutine: Done closed, an exit command, or a text for
\* the message channel.
WInputLine ==
    /\ WRunning /\ wPc["input"] = "loop"
    /\ \/ /\ wDone
          /\ wPc' = [wPc EXCEPT !["input"] = "done"]
          /\ UNCHANGED <<wQueue, wLines, wDone>>
       \/ /\ ~wDone
          /\ wPc' = [wPc EXCEPT !["input"] = "done"]
          /\ WShutdown
          /\ UNCHANGED <<wQueue, wLines>>
       \/ /\ ~wDone /\ wLines < MaxLines /\ wQueue < MessageChannelCap
          /\ wQueue' = wQueue + 1
          /\ wLines' = wLines + 1
          /\ UNCHANGED <<wPc, wDone>>
    /\ UNCHANGED <<client, wStep, wI, wLeft, writers>>
    /\ UNCHANGED nonWriterVars

\* The text client's sendRoutine: its select takes Done or a text.
WSendSelect ==
    /\ WRunning /\ wPc["send"] = "loop"
    /\ \/ /\ wDone
          /\ wPc' = [wPc EXCEPT !["send"] = "done"]
          /\ UNCHANGED <<wQueue, wLeft, wI>>
       \/ /\ wQueue > 0
          /\ wQueue' = wQueue - 1
          /\ \E n \in EventCounts(client) : wLeft' = [wLeft EXCEPT !["send"] = n]
          /\ wI' = [wI EXCEPT !["send"] = 0]
          /\ wPc' = [wPc EXCEPT !["send"] = "send_event"]
    /\ UNCHANGED <<client, wStep, wLines, writers, wDone>>
    /\ UNCHANGED nonWriterVars

\* receiveRoutine reads; it returns on Done or a clean close and calls shutdown
\* on a fatal error. It writes nothing.
WReceive ==
    /\ WRunning /\ wPc["receive"] = "loop"
    /\ \/ wPc' = [wPc EXCEPT !["receive"] = "done"] /\ UNCHANGED wDone
       \/ wPc' = [wPc EXCEPT !["receive"] = "done"] /\ WShutdown
    /\ UNCHANGED <<client, wStep, wI, wLeft, wQueue, wLines, writers>>
    /\ UNCHANGED nonWriterVars

\* audioProcessingRoutine returns on Done. It writes nothing.
WAssembler ==
    /\ WRunning /\ wPc["assembler"] = "loop"
    /\ wDone
    /\ wPc' = [wPc EXCEPT !["assembler"] = "done"]
    /\ UNCHANGED <<client, wStep, wI, wLeft, wQueue, wLines, writers, wDone>>
    /\ UNCHANGED nonWriterVars

\* The interrupt handler calls shutdown.
WInterrupt ==
    /\ WRunning /\ ~wDone
    /\ WShutdown
    /\ UNCHANGED <<client, wPc, wStep, wI, wLeft, wQueue, wLines, writers>>
    /\ UNCHANGED nonWriterVars

\* The text client's Start: wg.Wait() returns when its routines have returned.
WWaitReturns ==
    /\ WRunning /\ wPc["start"] = "wait"
    /\ \A t \in SpawnedByStart(client) : wPc[t] = "done"
    /\ WExit /\ WShutdown
    /\ UNCHANGED <<client, wStep, wI, wLeft, wQueue, wLines>>
    /\ UNCHANGED nonWriterVars

WriterNext ==
    \/ WStartStep
    \/ \E t \in {"start", "send"} : WBeginWrite(t)
    \/ \E t \in {"start", "send"} : WEndWrite(t)
    \/ WUserLine
    \/ WInputLine
    \/ WSendSelect
    \/ WReceive
    \/ WAssembler
    \/ WInterrupt
    \/ WWaitReturns

WriterInit ==
    /\ ClientInit /\ SendIdle /\ RetryIdle /\ WriterStart
    /\ MutexIdle /\ FragmentIdle /\ KeyIdle /\ PathIdle

WriterSpec == WriterInit /\ [][WriterNext]_vars

\* C31: at most one task is inside WriteJSON at any moment, and it is the
\* initiating task or the send routine, never the receiver or the assembler.
C31_OneDataWriter ==
    /\ Cardinality(writers) <= 1
    /\ writers \subseteq {"start", "send"}
    /\ \A t \in WTasks : (wPc[t] = "in_write") <=> (t \in writers)

\* The text client's sendRoutine is inside the write of a user's message while
\* Start waits and the other tasks run.
C31_Witness ==
    /\ client = "text" /\ writers = {"send"}
    /\ wPc["start"] = "wait" /\ wPc["receive"] = "loop" /\ wPc["input"] = "loop"


\* ---------------------------------------------------- AudioMutex and the map
\* handleAudioChunk (mainaudio.go:115-132) and saveAudioOnly (290-326) with the
\* mutex and every access to c.AudioBuffer as steps of their own: an access
\* begins in one step and takes effect in a later one.
MaxOps == 3
MTasks == {"asm", "rcv"}

\* handleAudioChunk: Lock, the nil test, the insertion when nil, the append
\* (with RecordAudioChunk), and the deferred Unlock.
HandleChunkSteps == <<"lock", "lookup", "insert", "append", "unlock">>

\* Mutant of SaveSteps: the buffer is deleted without the mutex.
SaveStepsBareDelete == <<"lock", "lookup", "unlock", "write", "delete">>

\* saveAudioOnly: Lock, lookup, Unlock; the file is written; Lock, delete, Unlock.
SaveSteps == <<"lock", "lookup", "unlock", "write", "lock", "delete", "unlock">>

StepsOf(t) == IF t = "asm" THEN HandleChunkSteps ELSE SaveSteps
MStep(t) == IF mPc[t] = 0 THEN "idle" ELSE StepsOf(t)[mPc[t]]
MapAccesses == {"lookup", "insert", "append", "delete"}

\* Task t goes on to step i, or returns when the steps are over.
MGoto(t, i) == mPc' = [mPc EXCEPT ![t] = IF i > Len(StepsOf(t)) THEN 0 ELSE i]

\* The assembler takes a chunk from the queue and calls handleAudioChunk; the
\* receiver reads a response.audio.done frame and calls saveAudioOnly.
MCall(t) ==
    /\ mPc[t] = 0 /\ mOps < MaxOps
    /\ mOps' = mOps + 1
    /\ \E k \in AudioKeys : mKey' = [mKey EXCEPT ![t] = k]
    /\ mFound' = [mFound EXCEPT ![t] = "unknown"]
    /\ MGoto(t, 1)
    /\ UNCHANGED <<AudioMutex, inMap, AudioBuffer, AudioChunks>>
    /\ UNCHANGED mutexRest

\* c.AudioMutex.Lock()
MLock(t) ==
    /\ MStep(t) = "lock"
    /\ AudioMutex = "unlocked"
    /\ AudioMutex' = t
    /\ MGoto(t, mPc[t] + 1)
    /\ UNCHANGED <<inMap, mKey, mFound, mOps, AudioBuffer, AudioChunks>>
    /\ UNCHANGED mutexRest

\* c.AudioMutex.Unlock(). After its first Unlock saveAudioOnly returns the
\* error of an absent or empty buffer.
MUnlock(t) ==
    /\ MStep(t) = "unlock"
    /\ AudioMutex' = "unlocked"
    /\ IF t = "rcv" /\ mFound[t] \in {"absent", "empty"}
         THEN MGoto(t, Len(StepsOf(t)) + 1)
         ELSE MGoto(t, mPc[t] + 1)
    /\ UNCHANGED <<inMap, mKey, mFound, mOps, AudioBuffer, AudioChunks>>
    /\ UNCHANGED mutexRest

\* Task t begins an access to the map.
MAccessBegin(t) ==
    /\ MStep(t) \in MapAccesses /\ t \notin inMap
    /\ inMap' = inMap \cup {t}
    /\ UNCHANGED <<AudioMutex, mPc, mKey, mFound, mOps, AudioBuffer, AudioChunks>>
    /\ UNCHANGED mutexRest

\* What a lookup of key k finds.
Found(buf, k) ==
    IF k \notin DOMAIN buf THEN "absent" ELSE IF buf[k] = <<>> THEN "empty" ELSE "data"

\* Task t's access takes effect. handleAudioChunk skips the insertion when the
\* key is present.
MAccessEnd(t) ==
    /\ t \in inMap
    /\ inMap' = inMap \ {t}
    /\ LET k == mKey[t] IN
         CASE MStep(t) = "lookup" ->
                /\ mFound' = [mFound EXCEPT ![t] = Found(AudioBuffer, k)]
                /\ MGoto(t, IF t = "asm" /\ k \in DOMAIN AudioBuffer
                              THEN mPc[t] + 2 ELSE mPc[t] + 1)
                /\ UNCHANGED <<AudioBuffer, AudioChunks>>
           [] MStep(t) = "insert" ->
                /\ AudioBuffer' = MapPut(AudioBuffer, k, <<>>)
                /\ MGoto(t, mPc[t] + 1)
                /\ UNCHANGED <<mFound, AudioChunks>>
           [] MStep(t) = "append" ->
                /\ AudioBuffer' = MapPut(AudioBuffer, k,
                                         (IF k \in DOMAIN AudioBuffer THEN AudioBuffer[k] ELSE <<>>)
                                            \o <<mOps>>)
                /\ AudioChunks' = AudioChunks + 1
                /\ MGoto(t, mPc[t] + 1)
                /\ UNCHANGED mFound
           [] OTHER ->
                /\ AudioBuffer' = MapDelete(AudioBuffer, k)
                /\ MGoto(t, mPc[t] + 1)
                /\ UNCHANGED <<mFound, AudioChunks>>
    /\ UNCHANGED <<AudioMutex, mKey, mOps>>
    /\ UNCHANGED mutexRest

\* saveAudioOnly writes the file; a failure returns before the deletion.
MWrite(t) ==
    /\ MStep(t) = "write"
    /\ \E ok \in BOOLEAN : MGoto(t, IF ok THEN mPc[t] + 1 ELSE Len(StepsOf(t)) + 1)
    /\ UNCHANGED <<AudioMutex, inMap, mKey, mFound, mOps, AudioBuffer, AudioChunks>>
    /\ UNCHANGED mutexRest

MutexNext ==
    \/ \E t \in MTasks : MCall(t)
    \/ \E t \in MTasks : MLock(t)
    \/ \E t \in MTasks : MUnlock(t)
    \/ \E t \in MTasks : MAccessBegin(t)
    \/ \E t \in MTasks : MAccessEnd(t)
    \/ \E t \in MTasks : MWrite(t)

MutexSpec == Init /\ [][MutexNext]_vars

\* C32: a task inside an access to AudioBuffer holds AudioMutex, so at most one
\* task is inside a map access at any time.
C32_MapAccessUnderMutex ==
    /\ \A t \in inMap : AudioMutex = t
    /\ Cardinality(inMap) <= 1

\* The receiver is inside the deletion that follows a written file while the
\* assembler, which has a chunk for the same key, waits for the mutex.
C32_Witness ==
    /\ inMap = {"rcv"} /\ MStep("rcv") = "delete" /\ AudioMutex = "rcv"
    /\ MStep("asm") = "lock" /\ mKey["asm"] = mKey["rcv"]


\* ------------------------------------- the fragments, counted and in order
\* The receiver and the assembler as in Spec, with the fragment counter
\* (c.Metrics.AudioChunks, audiotypes/types.go:189-191) and two histories: the
\* fragments handleAudioResponse has decoded and those handleAudioChunk has
\* appended, each in order.
Fragment(rid, iid, data) == [key |-> audioKey(rid, iid), data |-> data]

mutexVarsButCount == <<AudioMutex, inMap, mPc, mKey, mFound, mOps>>
fragmentRest == <<readVars, transcripts, retryVars, writerVars, mutexVarsButCount, keyVars,
                  pathVars>>

\* A response.audio.delta frame is read and decoded (RcvReadDelta, with the
\* history of decoded fragments).
RcvDecodeDelta ==
    /\ Alive /\ pc["rcv"] = "read" /\ ~IsClosed("Conn")
    /\ netSent < MaxFrames
    /\ \E sk \in StreamKeys : \E data \in Payloads(sk[1], sk[2], netSent + 1) :
          /\ rcvMsg' = [type |-> "response.audio.delta", rid |-> sk[1], iid |-> sk[2],
                        data |-> data]
          /\ recvd' = [recvd EXCEPT ![audioKey(sk[1], sk[2])] = @ \o data]
          /\ decoded' = Append(decoded, Fragment(sk[1], sk[2], data))
    /\ netSent' = netSent + 1
    /\ Goto("rcv", "handoff")
    /\ UNCHANGED <<AudioChannel, AudioBuffer, audioFiles, rcvData, asmChunk, saved,
                   appendedSince, lastDone, shutdownVars, wg, panicked, sendVars>>
    /\ UNCHANGED netLog
    /\ UNCHANGED <<appended, AudioChunks, fragmentRest>>

\* Mutant of RecordAudioChunk: the fragment is not counted.
RecordAudioChunkLost(n) == n

\* Metrics.RecordAudioChunk: atomic.AddInt64(&m.AudioChunks, 1).
RecordAudioChunk(n) == n + 1

\* handleAudioChunk, under AudioMutex (AsmHandle, with the counter and the
\* history of appended fragments).
AsmHandleChunk ==
    /\ Alive /\ pc["asm"] = "handle"
    /\ AudioBuffer' = AppendChunk(AudioBuffer, asmChunk)
    /\ AudioChunks' = RecordAudioChunk(AudioChunks)
    /\ appended' = Append(appended, [key |-> ChunkKey(asmChunk), data |-> asmChunk.data])
    /\ appendedSince' = [appendedSince EXCEPT ![ChunkKey(asmChunk)] = TRUE]
    /\ asmChunk' = NoChunk
    /\ Goto("asm", "select")
    /\ UNCHANGED <<AudioChannel, audioFiles, rcvMsg, rcvData, saved, recvd, lastDone,
                   wg, rcvRest>>
    /\ UNCHANGED netLog
    /\ UNCHANGED <<decoded, fragmentRest>>

FragmentNext ==
    \/ StartWriteSession
    \/ StartSpawnReceiver
    \/ UserQuit
    \/ Interrupt
    \/ \E p \in Callers : ShutdownEnter(p)
    \/ \E p \in Callers : ShutdownSelect(p)
    \/ \E p \in Callers : ShutdownSkip(p)
    \/ GoCloseFrame
    \/ GoCloseConn
    \/ GoCloseLogger
    \/ GoWait
    \/ \E ch \in {"MessageChannel", "DisplayChannel", "AudioChannel"} : GoCloseChannel(ch)
    \/ GoComplete
    \/ RcvSelect
    \/ RcvReadClosed
    \/ RcvDecodeDelta
    \/ RcvHandoffSend
    \/ RcvHandoffAbort
    \/ RcvReadDone
    \/ RcvSaveLookup
    \/ RcvSaveWrite
    \/ RcvSaveDelete
    \/ AsmRecv
    \/ AsmHandleChunk
    \/ AsmReturn

FragmentSpec == Init /\ [][FragmentNext]_vars

\* The fragments on their way, oldest first: the one the assembler holds, the
\* queue, and the one the receiver is handing over.
InHand == IF pc["asm"] = "handle" THEN <<Fragment(asmChunk.rid, asmChunk.iid, asmChunk.data)>>
          ELSE <<>>
Queued == [i \in 1..Len(AudioChannel) |->
              Fragment(AudioChannel[i].rid, AudioChannel[i].iid, AudioChannel[i].data)]
HandedOver == IF pc["rcv"] = "handoff" THEN <<Fragment(rcvMsg.rid, rcvMsg.iid, rcvMsg.data)>>
              ELSE <<>>

MaxKeyOps == 3
IDStrings == {"a", "a_b", "b_c", "c"}

keyRest == <<pc, goIdx, once, closeCount, complete, sdResult, wg, AudioChannel,
             audioFiles, rcvMsg, rcvData, asmChunk, saved, netSent, panicked,
             recvd, appendedSince, lastDone, goLog, netLog, Errors, rcvErr, transcripts,
             sendVars, retryVars, writerVars, mutexVars, fragmentVars, pathVars>>

\* handleAudioChunk is given a fragment of the stream (r, i).
KeyAppend ==
    /\ kOps < MaxKeyOps
    /\ \E r \in IDStrings, i \in IDStrings :
          AudioBuffer' = AppendChunk(AudioBuffer,
                                     [rid |-> r, iid |-> i, data |-> <<Byte(r, i, kOps + 1)>>])
    /\ kOps' = kOps + 1
    /\ UNCHANGED kDrains
    /\ UNCHANGED keyRest

\* saveAudioOnly drains the stream (r, i): absent or empty is an error, else
\* the bytes are written and the key is deleted.
KeyDrain ==
    /\ kOps < MaxKeyOps
    /\ \E r \in IDStrings, i \in IDStrings :
          LET key == audioKey(r, i) IN
            IF SaveLookupFails(AudioBuffer, key)
              THEN UNCHANGED <<AudioBuffer, kDrains>>
              ELSE /\ kDrains' = Append(kDrains, [stream |-> <<r, i>>, data |-> AudioBuffer[key]])
                   /\ AudioBuffer' = AfterDrain(AudioBuffer, key)
    /\ kOps' = kOps + 1
    /\ UNCHANGED keyRest

KeyNext == KeyAppend \/ KeyDrain

KeySpec == Init /\ [][KeyNext]_vars

\* The streams whose fragments make up the bytes s.
StreamsIn(s) == { s[n].src : n \in DOMAIN s }

\* C34: a buffer holds the fragments of one stream only, and a drain of a
\* stream takes out fragments of that stream only.
C34_KeysNeverShare ==
    /\ \A k \in DOMAIN AudioBuffer : Cardinality(StreamsIn(AudioBuffer[k])) <= 1
    /\ \A n \in DOMAIN kDrains : StreamsIn(kDrains[n].data) \subseteq {kDrains[n].stream}


\* ------------------------------------------- shutdown called by a tracked task
\* The receiver is counted in WG from Start's WG.Add(1) until its deferred
\* WG.Done, which runs when receiveRoutine returns, after shutdown has returned
\* to it (mainaudio.go:188, 205-210).
TrackedOthers == { p \in {"asm"} : pc[p] \notin {"unborn", "done"} }

\* C35: while the receiver executes shutdown, the wait of shutdown's goroutine
\* is for the other tracked tasks only: WG does not count the receiver itself.
C35_WaitExcludesCaller ==
    pc["rcv"] = "sd_select" => wg = Cardinality(TrackedOthers)

\* (What holds instead: a shutdown the receiver executes never sees `complete`.)
ReceiverShutdownTimesOut == pc["rcv"] = "sd_select" => ~complete


(***************************************************************************)
(* C36.  Channel safety of shutdown (src/mainaudio.go:355-393).  The       *)
(* channels are closed by the goroutine of shutdown only, behind           *)
(* ShutdownOnce and after WG.Wait() returned, and the only sender on       *)
(* AudioChannel is the receive loop, which WG tracks.                      *)
(***************************************************************************)

\* The channels the audio client closes: Done at src/mainaudio.go:359 and
\* the three data channels at src/mainaudio.go:379-381.
ClosedChannels == {"Done", "MessageChannel", "DisplayChannel", "AudioChannel"}

LogsSent == Len(sWrites') > Len(sWrites)

\* C37: no task writes an entry to the structured logger after shutdown
\* has closed the logger: every step that calls Logger.Log starts in a
\* state where Logger.Close has not run.
C37_NoLogAfterClose == [][LogsSent => ~IsClosed("Logger")]_vars


(***************************************************************************)
(* C38.  The output path of a completed stream (src/mainaudio.go:246-257). *)
(* The path is made of the wall clock formatted to the second, so the      *)
(* clock is part of the state: PathSpec lets time pass between fragments   *)
(* and response.audio.done events and keeps the files on disk.             *)
(***************************************************************************)

\* Bounds of PathSpec: how far the clock runs, and how many fragments and
\* done events are handled.
MaxTicks == 3
MaxPathOps == 4

\* The clock is read in half seconds; the layout "20060102_150405" has no
\* field below the second.
TicksPerSecond == 2

\* time.Now().Format("20060102_150405"): the instant t cut to its second.
Format(t) == t \div TicksPerSecond

\* filepath.Join(c.Config.AudioOutputDir, fmt.Sprintf("audio_%s.wav", timestamp))
AudioPath(t) == <<"audio_", Format(t), ".wav">>

pathRest == <<pc, goIdx, once, closeCount, complete, sdResult, wg, AudioChannel,
              rcvMsg, rcvData, asmChunk, saved, netSent, panicked,
              recvd, appendedSince, lastDone, goLog, netLog, Errors, rcvErr, transcripts,
              sendVars, retryVars, writerVars, mutexVars, fragmentVars, keyVars>>

\* Time passes.
PathTick ==
    /\ now < MaxTicks
    /\ now' = now + 1
    /\ UNCHANGED <<AudioBuffer, audioFiles, wavs, pOps>>
    /\ UNCHANGED pathRest

\* handleAudioChunk is given a fragment of a stream.
PathAppend ==
    /\ pOps < MaxPathOps
    /\ \E sk \in StreamKeys :
          AudioBuffer' = AppendChunk(AudioBuffer,
                            [rid |-> sk[1], iid |-> sk[2],
                             data |-> <<Byte(sk[1], sk[2], pOps + 1)>>])
    /\ pOps' = pOps + 1
    /\ UNCHANGED <<now, audioFiles, wavs>>
    /\ UNCHANGED pathRest

\* The response.audio.done case for a stream: the path is made from the
\* clock, saveAudioOnly drains the stream into the file at that path
\* (os.Create truncates a file that is there), and the path is remembered
\* for the key.
PathDone ==
    /\ pOps < MaxPathOps
    /\ \E sk \in StreamKeys : \E ok \in BOOLEAN :
          LET key == audioKey(sk[1], sk[2])
              filepath == AudioPath(now)
          IN /\ IF SaveLookupFails(AudioBuffer, key) \/ ~ok
                  THEN UNCHANGED <<AudioBuffer, wavs>>
                  ELSE /\ wavs' = MapPut(wavs, filepath,
                                         [key |-> key, data |-> AudioBuffer[key]])
                       /\ AudioBuffer' = AfterDrain(AudioBuffer, key)
             /\ audioFiles' = MapPut(audioFiles, key, filepath)
    /\ pOps' = pOps + 1
    /\ UNCHANGED now
    /\ UNCHANGED pathRest

PathNext == PathTick \/ PathAppend \/ PathDone

PathSpec == Init /\ [][PathNext]_vars

\* C38: each completed stream gets its own WAV artifact: the paths
\* remembered for two distinct stream keys differ, whatever the time
\* between the two completion events.
C38_OwnPathPerStream ==
    \A k1 \in DOMAIN audioFiles : \A k2 \in DOMAIN audioFiles :
        k1 # k2 => audioFiles[k1] # audioFiles[k2]

\* A step of PathSpec never writes a file at a path that holds the audio of
\* another stream.
NoWavOverwritten ==
    [][\A p \in DOMAIN wavs : p \in DOMAIN wavs' /\ wavs'[p].key = wavs[p].key]_vars


(***************************************************************************)
(* C39.  What the response.audio.done case remembers                       *)
(* (src/mainaudio.go:246-257): the path is stored in audioFiles after      *)
(* saveAudioOnly returned, whatever it returned.                           *)
(***************************************************************************)

\* This step ends the response.audio.done case for the key k.
DoneCaseEndsFor(k) ==
    /\ lastDone.state = "pending" /\ lastDone'.state = "finished"
    /\ lastDone'.key = k

\* C39: an output path is remembered for a key only when saveAudioOnly
\* succeeded for it at response.audio.done: a done case that ends with an
\* error of saveAudioOnly leaves no path for the key in audioFiles.
C39_PathOnlyAfterSave ==
    [][\A k \in DOMAIN audioFiles' :
          DoneCaseEndsFor(k) => ~lastDone'.err]_vars

====
